---------------------------- MODULE Spec2Model ----------------------------
(***************************************************************************)
(* A model of the tungus renderer: the camera (camera.rs), the Spatial     *)
(* transform algebra (spatial.rs), SceneObject instancing (scene.rs) and   *)
(* the run loop with its signal hub (main.rs, controls.rs, lighting.rs,    *)
(* screen.rs, utils.rs).                                                   *)
(*                                                                         *)
(* f32 values are fixed-point integers: angles in 1e-4 rad, degrees in     *)
(* 1e-2 degree, lengths and trigonometric values in 1e-4.  Conversions     *)
(* round, so a round trip is not the identity.                             *)
(***************************************************************************)
EXTENDS Integers, Sequences, FiniteSets, TLC

VARIABLES
    \* ---- camera.rs, one Camera value and the results of invert ----
    cam,          \* the Camera
    camOps,       \* number of rotate calls made on cam
    yawFree,      \* history: initial yaw plus every yaw increment, unclamped
    inverted,     \* cam.invert(), or NoCamera
    inverted2     \* cam.invert().invert(), or NoCamera

VARIABLES
    \* ---- scene.rs, one SceneObject ----
    obj,          \* the SceneObject: instances, ibo, model, normal, flags
    objOps,       \* number of calls made on obj
    lastOp,       \* history: the last call made on obj and its argument
    countBefore,  \* history: get_instances() before the last call
    offsetSum,    \* history: sum of the offsets of every translate on obj
    drawCall,     \* the instance count handed to instanced_draw by the last draw
    gotNormal     \* the value returned by the last get_normal, or NoValue

VARIABLES
    \* ---- main.rs, the run loop ----
    pc,             \* position of main in the loop
    iter,           \* total_cycles
    program_loop,   \* the Program
    control_hub,    \* the controllers of the ControllerHub, by slot
    main_camera,    \* the Camera
    lighting,       \* the Lighting, of which the spot
    screen,         \* the params of the main Screen
    scene_params,   \* the SceneParameters
    rts,            \* the RandomTransforms
    scene,          \* the Scene of the frame, or NoValue
    mirrored_scene, \* its mirrored Scene, or NoValue
    frame,          \* history: the update and draw calls of the iteration
    swaps,          \* history: number of swap_window calls
    tick,           \* history: what the update just made did, or NoValue
    quitDispatched, \* history: a Quit signal has been emitted
    flashHist       \* history: spot.on before each of the last two F updates

VARIABLES
    \* ---- one call of a function: its name, its arguments, its result ----
    fcall

VARIABLES
    \* ---- main.rs, screen.rs, scene.rs: the GL calls of the frames ----
    rpc,            \* position of main: start up, then the draws of a frame
    gl,             \* the state of the GL context
    TEX_COUNT,      \* shaders.rs: the global texture-unit counter
    screens,        \* the Screen values constructed so far
    fb_status,      \* what glCheckFramebufferStatus answered, in order
    world,          \* objects_list, the camera and the scene parameters
    calls,          \* the GL calls of the last top-level draw, with the state each met
    frames          \* frames completed

camVars == <<cam, camOps, yawFree, inverted, inverted2>>

objVars == <<obj, objOps, lastOp, countBefore, offsetSum, drawCall, gotNormal>>

loopVars ==
    <<pc, iter, program_loop, control_hub, main_camera, lighting, screen,
      scene_params, rts, scene, mirrored_scene, frame, swaps, tick,
      quitDispatched, flashHist>>

callVars == <<fcall>>

renderVars == <<rpc, gl, TEX_COUNT, screens, fb_status, world, calls, frames>>

vars == <<camVars, objVars, loopVars, callVars, renderVars>>

\* what the steps of each part leave alone
NotCam == <<objVars, loopVars, callVars, renderVars>>

NotObj == <<camVars, loopVars, callVars, renderVars>>

NotLoop == <<camVars, objVars, callVars, renderVars>>

NotCall == <<camVars, objVars, loopVars, renderVars>>

NotRender == <<camVars, objVars, loopVars, callVars>>

-----------------------------------------------------------------------------
(* Bounds of the model *)

MaxCamOps == 2  \* rotate calls per camera

MaxObjOps == 3  \* calls per SceneObject

MaxAdd == 2     \* largest argument of add_instances

MaxIter == 2    \* iterations of the run loop

MaxEvents == 2  \* pending events of one poll

MaxObjects == 3 \* objects of a Scene

MaxSide == 60    \* cube sides, in steps of 0.025

MaxFrames == 2  \* frames drawn

MaxSignals == 2 \* signals a controller receives before process_signals

\* pending events of the poll in the wait_event specification
MaxPoll == 3

\* updates in the specifications of one controller over several ticks
MaxTicks == 3

\* largest update rate of a RandomTransform (of 0..=1000 in main.rs)
MaxRate == 3

\* process_signals calls of the RTController
MaxCalls == 7

AngleTol == 5   \* f32 tolerance on an angle after a degree round trip, 1e-4 rad

DirTol == 20    \* f32 tolerance on the sine of the angle between directions, 1e-4

-----------------------------------------------------------------------------
(* f32 arithmetic as fixed point *)

FScale == 10^4                 \* 1.0 as a fixed-point length, 1 rad as an angle

PiU == 31416                   \* std::f32::consts::PI, in 1e-4 rad

HalfPiU == PiU \div 2

TwoPiU == 2 * PiU

ANGLE_LOWER_BOUND == 10        \* 0.001 rad, in 1e-4 rad

HalfTurnDeg == 18000           \* 180.0 degrees, the divisor of to_radians

\* F at the value of v, which is evaluated once
Let(v, F(_)) == CHOOSE r \in {F(x) : x \in {v}} : TRUE

Abs(x) == IF x < 0 THEN -x ELSE x

Min2(a, b) == IF a < b THEN a ELSE b

Max2(a, b) == IF a > b THEN a ELSE b

\* a / b rounded to the nearest integer (b > 0): one f32 rounding
RoundDiv(a, b) == (a + (b \div 2)) \div b

\* f32::to_radians: degrees (1e-2 degree) to radians (1e-4 rad)
ToRadians(deg) == RoundDiv(deg * PiU, HalfTurnDeg)

\* f32::to_degrees: radians (1e-4 rad) to degrees (1e-2 degree)
ToDegrees(rad) == RoundDiv(rad * HalfTurnDeg, PiU)

\* sin on [0, pi/2] by its Taylor polynomial in Horner form
SinQuadrant(x) ==
    LET t  == (x * x) \div FScale
        u4 == FScale - (t \div 72)
        u3 == FScale - (((t * u4) \div FScale) \div 42)
        u2 == FScale - (((t * u3) \div FScale) \div 20)
        u1 == FScale - (((t * u2) \div FScale) \div 6)
    IN  RoundDiv(x * u1, FScale)

\* f32::sin, periodic in 2 pi
Sin(a) ==
    LET r == a % TwoPiU
    IN  IF r <= HalfPiU THEN SinQuadrant(r)
        ELSE IF r <= PiU THEN SinQuadrant(PiU - r)
        ELSE IF r <= PiU + HalfPiU THEN -SinQuadrant(r - PiU)
        ELSE -SinQuadrant(TwoPiU - r)

\* f32::cos
Cos(a) == Sin(a + HalfPiU)

\* fixed-point product of two 1e-4 values
FMul(a, b) == RoundDiv(a * b, FScale)

VNeg(v) == <<-v[1], -v[2], -v[3]>>

VAdd(v, w) == <<v[1] + w[1], v[2] + w[2], v[3] + w[3]>>

VSub(v, w) == <<v[1] - w[1], v[2] - w[2], v[3] - w[3]>>

\* nalgebra angle(&vec3(x, .., o), &vec3(1, 0, 0)) for a vector with at most one
\* other non-zero component o: acos(x / norm), and 0 for the zero vector.
\* Exact on the lattice |x| = |o| or x * o = 0, which InitPositions stays on.
AngleToXAxis(x, o) ==
    CASE x = 0 /\ o = 0 -> 0
      [] x > 0 /\ o = 0 -> 0
      [] x < 0 /\ o = 0 -> PiU
      [] x = 0 /\ o # 0 -> HalfPiU
      [] x > 0 /\ Abs(o) = x -> PiU \div 4
      [] x < 0 /\ Abs(o) = -x -> 3 * (PiU \div 4)

-----------------------------------------------------------------------------
(* camera.rs: Camera *)

NoCamera == [none |-> TRUE]

\* Camera::new
CameraNew(initial_pos) ==
    LET focal_point == VNeg(initial_pos)
    IN  [pos |-> initial_pos,
         direction |-> focal_point,
         pitch |-> AngleToXAxis(focal_point[1], focal_point[2]),
         yaw |-> AngleToXAxis(focal_point[1], focal_point[3]),
         roll |-> 0,
         fov |-> FScale]

\* ClampPitch without its upper bound (.min dropped)
ClampPitchNoUpper(p) == Max2(p, -HalfPiU + ANGLE_LOWER_BOUND)

\* the pitch clamp of Camera::rotate
ClampPitch(p) ==
    Min2(Max2(p, -HalfPiU + ANGLE_LOWER_BOUND), HalfPiU - ANGLE_LOWER_BOUND)

\* Camera::rotate, euler_angles in degrees
CameraRotate(c, euler_angles) ==
    LET pitch == ClampPitch(c.pitch + ToRadians(euler_angles[1]))
        yaw == c.yaw + ToRadians(euler_angles[2])
        roll == c.roll + ToRadians(euler_angles[3])
    IN  [c EXCEPT !.pitch = pitch,
                  !.yaw = yaw,
                  !.roll = roll,
                  !.direction = <<FMul(Cos(yaw), Cos(pitch)),
                                  Sin(pitch),
                                  FMul(Sin(yaw), Cos(pitch))>>]

\* Camera::rotate_pitch
CameraRotatePitch(c, rotation) == CameraRotate(c, <<rotation, 0, 0>>)

\* Camera::rotate_yaw
CameraRotateYaw(c, rotation) == CameraRotate(c, <<0, rotation, 0>>)

\* Camera::invert: a rotated clone, self is not changed
CameraInvert(c) ==
    LET inv == CameraRotatePitch(c, ToDegrees(c.pitch) * (-2))
    IN  CameraRotateYaw(inv, HalfTurnDeg)

\* largest r in lo..hi with r * r <= n, by bisection
RECURSIVE SqrtBetween(_, _, _)
SqrtBetween(n, lo, hi) ==
    IF lo >= hi THEN lo
    ELSE LET mid == (lo + hi + 1) \div 2
         IN  IF mid * mid <= n THEN SqrtBetween(n, mid, hi)
             ELSE SqrtBetween(n, lo, mid - 1)

\* f32::sqrt of a non-negative integer below 2^31
Sqrt(n) == SqrtBetween(n, 0, 46340)

\* glm cross on fixed-point vectors
FCross(a, b) ==
    <<FMul(a[2], b[3]) - FMul(a[3], b[2]),
      FMul(a[3], b[1]) - FMul(a[1], b[3]),
      FMul(a[1], b[2]) - FMul(a[2], b[1])>>

\* a scalar times a fixed-point vector
FScaleVec(k, v) == <<FMul(k, v[1]), FMul(k, v[2]), FMul(k, v[3])>>

\* glm normalize; the norm is non-zero for every direction the model reaches
Normalize(v) ==
    LET norm == Sqrt(v[1] * v[1] + v[2] * v[2] + v[3] * v[3])
    IN  <<RoundDiv(v[1] * FScale, norm), RoundDiv(v[2] * FScale, norm),
          RoundDiv(v[3] * FScale, norm)>>

\* Camera::translate
CameraTranslate(c, offset) ==
    LET p1 == VSub(c.pos, FScaleVec(offset[3], c.direction))
        global_up == <<0, FScale, 0>>
        camera_right == Normalize(FCross(global_up, c.direction))
        p2 == VSub(p1, FScaleVec(offset[1], camera_right))
        camera_up == FCross(c.direction, camera_right)
    IN  [c EXCEPT !.pos = VSub(p2, FScaleVec(offset[2], camera_up))]

\* Camera::translate_longitudinal
CameraTranslateLongitudinal(c, offset) == CameraTranslate(c, <<offset, 0, 0>>)

\* Camera::translate_forward with the offset added instead of subtracted
CameraTranslateForwardAdd(c, offset) ==
    LET direction == FScaleVec(offset, <<Cos(c.yaw), 0, Sin(c.yaw)>>)
    IN  [c EXCEPT !.pos = VAdd(c.pos, direction)]

\* Camera::translate_forward
CameraTranslateForward(c, offset) ==
    LET direction == FScaleVec(offset, <<Cos(c.yaw), 0, Sin(c.yaw)>>)
    IN  [c EXCEPT !.pos = VSub(c.pos, direction)]

\* Camera::translate_vertical
CameraTranslateVertical(c, offset) == [c EXCEPT !.pos[2] = @ + offset]

\* Camera::change_fov
CameraChangeFov(c, offset) == [c EXCEPT !.fov = @ + ToRadians(offset)]

-----------------------------------------------------------------------------
(* nalgebra_glm matrices.  A Mat4 is a tuple of four rows; entries are exact  *)
(* integers (inputs are integer offsets, integer scale factors and quarter    *)
(* turns, on which f32 arithmetic is exact).  A Mat3 that comes out of an     *)
(* inversion is a matrix of numerators over one denominator.                  *)

Identity4 == <<<<1, 0, 0, 0>>, <<0, 1, 0, 0>>, <<0, 0, 1, 0>>, <<0, 0, 0, 1>>>>

Identity3 == <<<<1, 0, 0>>, <<0, 1, 0>>, <<0, 0, 1>>>>

\* Mat3::identity()
Mat3Identity == [num |-> Identity3, den |-> 1]

MatMul(A, B) ==
    [r \in 1..4 |-> [c \in 1..4 |->
        A[r][1] * B[1][c] + A[r][2] * B[2][c] + A[r][3] * B[3][c] + A[r][4] * B[4][c]]]

\* model.column(3)
Column3(M) == <<M[1][4], M[2][4], M[3][4], M[4][4]>>

\* model.set_column(3, v)
SetColumn3(M, v) == [r \in 1..4 |-> [M[r] EXCEPT ![4] = v[r]]]

\* glm translation(v)
Translation(v) == SetColumn3(Identity4, <<v[1], v[2], v[3], 1>>)

\* glm scaling(v)
Scaling(v) == <<<<v[1], 0, 0, 0>>, <<0, v[2], 0, 0>>, <<0, 0, v[3], 0>>, <<0, 0, 0, 1>>>>

\* cos and sin of q quarter turns
CosQ(q) == <<1, 0, -1, 0>>[(q % 4) + 1]

SinQ(q) == <<0, 1, 0, -1>>[(q % 4) + 1]

\* glm rotation(angle, axis) for an angle of q quarter turns about a unit axis:
\* c I + (1 - c) a a^T + s [a]x
Rotation(q, a) ==
    LET c == CosQ(q)
        s == SinQ(q)
        k == <<<<0, -a[3], a[2]>>, <<a[3], 0, -a[1]>>, <<-a[2], a[1], 0>>>>
    IN  [r \in 1..4 |-> [cc \in 1..4 |->
            IF r = 4 \/ cc = 4 THEN (IF r = cc THEN 1 ELSE 0)
            ELSE (IF r = cc THEN c ELSE 0) + (1 - c) * a[r] * a[cc] + s * k[r][cc]]]

\* the rows (columns) of 1..4 other than i, in order
Others(i) == CASE i = 1 -> <<2, 3, 4>> [] i = 2 -> <<1, 3, 4>>
               [] i = 3 -> <<1, 2, 4>> [] i = 4 -> <<1, 2, 3>>

\* determinant of the 3x3 minor of M that drops row i and column j
Minor(M, i, j) ==
    LET r == Others(i)
        c == Others(j)
        e(x, y) == M[r[x]][c[y]]
    IN  e(1, 1) * (e(2, 2) * e(3, 3) - e(2, 3) * e(3, 2))
      - e(1, 2) * (e(2, 1) * e(3, 3) - e(2, 3) * e(3, 1))
      + e(1, 3) * (e(2, 1) * e(3, 2) - e(2, 2) * e(3, 1))

Sign(i, j) == IF (i + j) % 2 = 0 THEN 1 ELSE -1

Cofactor(M, i, j) == Sign(i, j) * Minor(M, i, j)

Det4(M) ==
    M[1][1] * Cofactor(M, 1, 1) + M[1][2] * Cofactor(M, 1, 2)
  + M[1][3] * Cofactor(M, 1, 3) + M[1][4] * Cofactor(M, 1, 4)

\* mat4_to_mat3(&model.try_inverse().unwrap().transpose()): the inverse is the
\* adjugate over the determinant, so its transpose is the cofactor matrix over
\* the determinant; the model's calls keep the determinant non-zero
InverseTransposeMat3(M) ==
    LET d == Det4(M)
        sg == IF d < 0 THEN -1 ELSE 1
    IN  [num |-> [r \in 1..3 |-> [c \in 1..3 |-> sg * Cofactor(M, r, c)]],
         den |-> sg * d]

\* equality of two Mat3 values
Mat3Equal(A, B) ==
    \A r \in 1..3 : \A c \in 1..3 : A.num[r][c] * B.den = B.num[r][c] * A.den

-----------------------------------------------------------------------------
(* spatial.rs: the default methods of trait Spatial, on the model matrix *)

\* Spatial::rotate without putting the saved translation back
SpatialRotateNoRestore(model, q, axis) ==
    LET zeroed == SetColumn3(model, <<0, 0, 0, model[4][4]>>)
    IN  MatMul(Rotation(q, axis), zeroed)

\* Spatial::rotate
SpatialRotate(model, q, axis) ==
    LET translation == Column3(model)
        zeroed == SetColumn3(model, <<0, 0, 0, model[4][4]>>)
        rotated == MatMul(Rotation(q, axis), zeroed)
    IN  SetColumn3(rotated, translation)

\* Spatial::scale
SpatialScale(model, factors) ==
    LET col == Column3(model)
        to_origin == <<-col[1], -col[2], -col[3]>>
    IN  MatMul(MatMul(MatMul(Translation(VNeg(to_origin)), Scaling(factors)),
                      Translation(to_origin)),
               model)

\* Spatial::translate
SpatialTranslate(model, offset) ==
    LET col == Column3(model)
    IN  SetColumn3(model, <<col[1] + offset[1], col[2] + offset[2],
                            col[3] + offset[3], col[4]>>)

-----------------------------------------------------------------------------
(* scene.rs: Instance and SceneObject *)

NoValue == [none |-> TRUE]

\* Instance::new
InstanceNew ==
    [model |-> Identity4, normal |-> Mat3Identity, trans |-> Identity4, rot |-> Identity4]

\* <Instance as Spatial>::get_normal: recomputes, stores and returns the normal
InstanceGetNormal(inst) == [inst EXCEPT !.normal = InverseTransposeMat3(inst.model)]

\* SceneObject::setup_object: upload the instances to the instance buffer
SetupObject(o) == [o EXCEPT !.ibo = o.instances]

\* SceneObject::from
SceneObjectFrom ==
    SetupObject([instances |-> <<InstanceNew>>,
                 ibo |-> <<>>,
                 model |-> Identity4,
                 normal |-> Mat3Identity,
                 outline |-> <<0, 0, 0, 0>>,
                 dirty_instances |-> FALSE,
                 dirty_normal |-> FALSE])

\* SceneObject::add_instance
SceneObjectAddInstance(o) == [o EXCEPT !.instances = Append(@, InstanceNew)]

\* add_instances with a loop that stops one push short
SceneObjectAddInstancesShort(o, n) ==
    [o EXCEPT !.instances = @ \o [i \in 1..(IF n > 0 THEN n - 1 ELSE 0) |-> InstanceNew]]

\* SceneObject::add_instances
SceneObjectAddInstances(o, n) ==
    [o EXCEPT !.instances = @ \o [i \in 1..n |-> InstanceNew]]

\* SceneObject::get_instances
SceneObjectGetInstances(o) == Len(o.instances)

\* the index get_instance and get_instance_mut resolve an isize to
InstanceIndex(o, instance) ==
    IF instance < 0 THEN Len(o.instances) - (-instance) + 1 ELSE instance + 1

\* SceneObject::get_instance_mut followed by the caller's update f of the
\* instance it borrowed
SceneObjectInstanceMut(o, instance, updated) ==
    [o EXCEPT !.dirty_instances = TRUE,
              !.instances[InstanceIndex(o, instance)] = updated]

\* SceneObject::draw: the buffer after the call
SceneObjectDraw(o) == IF o.dirty_instances = TRUE THEN [o EXCEPT !.ibo = o.instances] ELSE o

\* SceneObject::draw: the instance count it hands to instanced_draw
SceneObjectDrawCount(o) == Len(o.instances)

\* <SceneObject as Spatial>::get_normal: recomputes only when dirty_normal
SceneObjectGetNormal(o) ==
    IF o.dirty_normal THEN [o EXCEPT !.normal = InverseTransposeMat3(o.model)] ELSE o

\* <SceneObject as Spatial>::set_model
SceneObjectSetModel(o, model) == [o EXCEPT !.model = model]

\* <Instance as Spatial>::set_model
InstanceSetModel(inst, model) == [inst EXCEPT !.model = model]

-----------------------------------------------------------------------------
(* The camera on its own: construct, rotate, invert *)

\* initial positions handed to Camera::new; main.rs uses (0, 0, -2)
InitPositions ==
    {<<0, 0, -2 * FScale>>, <<0, 0, 2 * FScale>>, <<-2 * FScale, 0, 0>>,
     <<2 * FScale, 0, 0>>, <<-2 * FScale, -2 * FScale, 0>>,
     <<2 * FScale, 2 * FScale, 0>>, <<-2 * FScale, 0, 2 * FScale>>}

\* rotation inputs in 1e-2 degree
PitchInputs == {-20000, -8990, -3000, 0, 1, 4500, 8995, 20000}

YawInputs == {-9000, 0, 77, 18000, 36000}

CamInit ==
    /\ \E p \in InitPositions : cam = CameraNew(p)
    /\ camOps = 0
    /\ yawFree = cam.yaw
    /\ inverted = NoCamera
    /\ inverted2 = NoCamera

CamRotate ==
    /\ UNCHANGED NotCam
    /\ camOps < MaxCamOps
    /\ \E x \in PitchInputs, y \in YawInputs :
          /\ cam' = CameraRotate(cam, <<x, y, 0>>)
          /\ yawFree' = yawFree + ToRadians(y)
    /\ camOps' = camOps + 1
    /\ inverted' = NoCamera
    /\ inverted2' = NoCamera

CamInvert ==
    /\ UNCHANGED NotCam
    /\ inverted = NoCamera
    /\ inverted' = CameraInvert(cam)
    /\ inverted2' = CameraInvert(CameraInvert(cam))
    /\ UNCHANGED <<cam, camOps, yawFree>>

CamNext == CamRotate \/ CamInvert

-----------------------------------------------------------------------------
(* One SceneObject on its own: construct, then any calls *)

\* translate offsets, scale factors, and rotations as <<quarter turns, axis>>;
\* main.rs turns the floor by -PI / 2 about x
Offsets == {<<1, 0, 0>>, <<0, 2, -3>>}

Factors == {<<2, 2, 2>>, <<1, 3, 1>>}

Turns == {<<1, <<0, 0, 1>>>>, <<3, <<1, 0, 0>>>>}

\* the instances callers pick: the first (0) and the last (-1)
InstancePicks == {0, -1}

ObjInit ==
    /\ obj = SceneObjectFrom
    /\ objOps = 0
    /\ lastOp = [op |-> "from", arg |-> 0]
    /\ countBefore = 0
    /\ offsetSum = <<0, 0, 0>>
    /\ drawCall = -1
    /\ gotNormal = NoValue

\* every call counts, and forgets what the previous draw or get_normal returned
ObjCall(op, arg) ==
    /\ UNCHANGED NotObj
    /\ objOps < MaxObjOps
    /\ objOps' = objOps + 1
    /\ lastOp' = [op |-> op, arg |-> arg]
    /\ countBefore' = SceneObjectGetInstances(obj)

ObjTranslate ==
    \E v \in Offsets :
        /\ ObjCall("translate", v)
        /\ obj' = SceneObjectSetModel(obj, SpatialTranslate(obj.model, v))
        /\ offsetSum' = VAdd(offsetSum, v)
        /\ drawCall' = -1
        /\ gotNormal' = NoValue

ObjRotate ==
    \E t \in Turns :
        /\ ObjCall("rotate", t)
        /\ obj' = SceneObjectSetModel(obj, SpatialRotate(obj.model, t[1], t[2]))
        /\ drawCall' = -1
        /\ gotNormal' = NoValue
        /\ UNCHANGED offsetSum

ObjScale ==
    \E f \in Factors :
        /\ ObjCall("scale", f)
        /\ obj' = SceneObjectSetModel(obj, SpatialScale(obj.model, f))
        /\ drawCall' = -1
        /\ gotNormal' = NoValue
        /\ UNCHANGED offsetSum

ObjAddInstance ==
    /\ ObjCall("add_instance", 1)
    /\ obj' = SceneObjectAddInstance(obj)
    /\ drawCall' = -1
    /\ gotNormal' = NoValue
    /\ UNCHANGED offsetSum

ObjAddInstances ==
    \E n \in 0..MaxAdd :
        /\ ObjCall("add_instances", n)
        /\ obj' = SceneObjectAddInstances(obj, n)
        /\ drawCall' = -1
        /\ gotNormal' = NoValue
        /\ UNCHANGED offsetSum

\* get_instance_mut(i) and a Spatial call on the instance, as main.rs does
ObjInstanceTranslate ==
    \E i \in InstancePicks, v \in Offsets :
        LET inst == obj.instances[InstanceIndex(obj, i)]
        IN  /\ ObjCall("instance_translate", i)
            /\ obj' = SceneObjectInstanceMut(obj, i,
                          InstanceSetModel(inst, SpatialTranslate(inst.model, v)))
            /\ drawCall' = -1
            /\ gotNormal' = NoValue
            /\ UNCHANGED offsetSum

ObjInstanceScale ==
    \E i \in InstancePicks, f \in Factors :
        LET inst == obj.instances[InstanceIndex(obj, i)]
        IN  /\ ObjCall("instance_scale", i)
            /\ obj' = SceneObjectInstanceMut(obj, i,
                          InstanceSetModel(inst, SpatialScale(inst.model, f)))
            /\ drawCall' = -1
            /\ gotNormal' = NoValue
            /\ UNCHANGED offsetSum

ObjDraw ==
    /\ ObjCall("draw", 0)
    /\ obj' = SceneObjectDraw(obj)
    /\ drawCall' = SceneObjectDrawCount(obj)
    /\ gotNormal' = NoValue
    /\ UNCHANGED offsetSum

ObjGetNormal ==
    /\ ObjCall("get_normal", 0)
    /\ obj' = SceneObjectGetNormal(obj)
    /\ gotNormal' = [value |-> obj'.normal, model |-> obj.model, of |-> "object"]
    /\ drawCall' = -1
    /\ UNCHANGED offsetSum

ObjInstanceGetNormal ==
    \E i \in InstancePicks :
        LET inst == obj.instances[InstanceIndex(obj, i)]
        IN  /\ ObjCall("instance_get_normal", i)
            /\ obj' = SceneObjectInstanceMut(obj, i, InstanceGetNormal(inst))
            /\ gotNormal' = [value |-> InstanceGetNormal(inst).normal,
                             model |-> inst.model, of |-> "instance"]
            /\ drawCall' = -1
            /\ UNCHANGED offsetSum

ObjNext ==
    \/ ObjTranslate
    \/ ObjRotate
    \/ ObjScale
    \/ ObjAddInstance
    \/ ObjAddInstances
    \/ ObjInstanceTranslate
    \/ ObjInstanceScale
    \/ ObjDraw
    \/ ObjGetNormal
    \/ ObjInstanceGetNormal

-----------------------------------------------------------------------------
(* controls.rs: signals.  Key codes are strings. *)

Quit == [type |-> "Quit"]

KeyPressed(keycode) == [type |-> "KeyPressed", key |-> keycode]

KeyReleased(keycode) == [type |-> "KeyReleased", key |-> keycode]

MouseMoved(a, b) == [type |-> "MouseMoved", x |-> a, y |-> b]

MouseScrolled(a) == [type |-> "MouseScrolled", y |-> a]

-----------------------------------------------------------------------------
(* camera.rs: CameraController.  trans_speed is a length, rot_speed and      *)
(* zoom_speed are degrees per unit of input, cycle_time is in milliseconds.  *)

\* CameraController::new
CameraControllerNew ==
    [signal_list |-> <<>>,
     inv_vertical |-> FALSE,
     trans_speed |-> FScale \div 10,
     rot_speed |-> 10,
     zoom_speed |-> 10,
     cycle_time |-> 0,
     positive_delta_mov |-> <<0, 0, 0>>,
     negative_delta_mov |-> <<0, 0, 0>>,
     delta_rot |-> <<0, 0, 0>>,
     delta_zoom |-> 0]

\* CameraController::set_speeds
CameraControllerSetSpeeds(c, cycle_time) ==
    [c EXCEPT !.trans_speed = cycle_time * 20,
              !.rot_speed = cycle_time,
              !.zoom_speed = cycle_time * 10,
              !.cycle_time = cycle_time]

\* CameraController::on_key_pressed
CameraControllerOnKeyPressed(c, keycode) ==
    CASE keycode = "D" -> [c EXCEPT !.positive_delta_mov[1] = c.trans_speed]
      [] keycode = "A" -> [c EXCEPT !.negative_delta_mov[1] = c.trans_speed]
      [] keycode = "SPACE" -> [c EXCEPT !.positive_delta_mov[2] = c.trans_speed]
      [] keycode = "LCTRL" -> [c EXCEPT !.negative_delta_mov[2] = c.trans_speed]
      [] keycode = "S" -> [c EXCEPT !.positive_delta_mov[3] = c.trans_speed]
      [] keycode = "W" -> [c EXCEPT !.negative_delta_mov[3] = c.trans_speed]
      [] OTHER -> c

\* CameraController::on_key_released
CameraControllerOnKeyReleased(c, keycode) ==
    CASE keycode = "D" -> [c EXCEPT !.positive_delta_mov[1] = 0]
      [] keycode = "A" -> [c EXCEPT !.negative_delta_mov[1] = 0]
      [] keycode = "SPACE" -> [c EXCEPT !.positive_delta_mov[2] = 0]
      [] keycode = "LCTRL" -> [c EXCEPT !.negative_delta_mov[2] = 0]
      [] keycode = "S" -> [c EXCEPT !.positive_delta_mov[3] = 0]
      [] keycode = "W" -> [c EXCEPT !.negative_delta_mov[3] = 0]
      [] OTHER -> c

\* CameraController::on_mouse_moved
CameraControllerOnMouseMoved(c, x, y) ==
    [c EXCEPT !.delta_rot = VAdd(@, <<(-x) * c.rot_speed, y * c.rot_speed, 0>>)]

\* CameraController::on_mouse_scrolled
CameraControllerOnMouseScrolled(c, y) ==
    [c EXCEPT !.delta_zoom = @ + y * c.zoom_speed]

\* Slot::on_signal of CameraController
CameraControllerOnSignal(c, signal) ==
    [c EXCEPT !.signal_list = Append(@, signal)]

\* the match of process_signals on one queued signal
CameraControllerDispatch(c, signal) ==
    CASE signal.type = "KeyPressed" -> CameraControllerOnKeyPressed(c, signal.key)
      [] signal.type = "KeyReleased" -> CameraControllerOnKeyReleased(c, signal.key)
      [] signal.type = "MouseMoved" ->
            CameraControllerOnMouseMoved(c, signal.x, signal.y)
      [] signal.type = "MouseScrolled" ->
            CameraControllerOnMouseScrolled(c, signal.y)
      [] OTHER -> c

\* the loop of process_signals over signal_list.clone(); applied records the
\* signals the handlers were called with
RECURSIVE CameraControllerDispatchAll(_, _)
CameraControllerDispatchAll(r, signals) ==
    IF signals = <<>> THEN r
    ELSE Let(r, LAMBDA done :
             CameraControllerDispatchAll(
                 [ctl |-> CameraControllerDispatch(done.ctl, Head(signals)),
                  applied |-> Append(done.applied, Head(signals))],
                 Tail(signals)))

\* process_signals of CameraController without the reset of delta_rot
CameraControllerFinishKeepRot(c) ==
    [c EXCEPT !.delta_zoom = 0, !.signal_list = <<>>]

\* the end of process_signals of CameraController
CameraControllerFinish(c) ==
    [c EXCEPT !.delta_rot = <<0, 0, 0>>, !.delta_zoom = 0, !.signal_list = <<>>]

\* the camera calls of process_signals, from the accumulated deltas
CameraControllerMove(self_obj, target) ==
    Let(VSub(self_obj.positive_delta_mov, self_obj.negative_delta_mov),
        LAMBDA delta_mov :
    Let(CameraTranslateLongitudinal(target, delta_mov[1]), LAMBDA o1 :
    Let(CameraTranslateVertical(o1, delta_mov[2]), LAMBDA o2 :
    Let(CameraTranslateForward(o2, delta_mov[3]), LAMBDA o3 :
    Let(CameraRotate(o3, self_obj.delta_rot), LAMBDA o4 :
        CameraChangeFov(o4, self_obj.delta_zoom))))))

\* Controller::process_signals of Rc<RefCell<CameraController>>
CameraControllerProcessSignals(c, target) ==
    Let(CameraControllerDispatchAll([ctl |-> c, applied |-> <<>>], c.signal_list),
        LAMBDA r :
            [ctl |-> CameraControllerFinish(r.ctl),
             target |-> CameraControllerMove(r.ctl, target),
             applied |-> r.applied])

-----------------------------------------------------------------------------
(* lighting.rs: Spotlight and FlashlightController *)

\* Spotlight::new; the colours and the cone are constants of main.rs
SpotlightNew(pos, dir, amb, diff, spec, att, phi, gamma) == [pos |-> pos, dir |-> dir, amb |-> amb, diff |-> diff, spec |-> spec, att |-> att, phi |-> phi, gamma |-> gamma, on |-> TRUE]

\* `on as i32 as f32`
BoolAsF32(b) == IF b THEN FScale ELSE 0

\* Spotlight::get_amb with the switch ignored
SpotlightGetAmbAlways(light) == light.amb

\* Spotlight::get_amb
SpotlightGetAmb(light) == FScaleVec(BoolAsF32(light.on), light.amb)

\* Spotlight::get_diff
SpotlightGetDiff(light) == FScaleVec(BoolAsF32(light.on), light.diff)

\* Spotlight::get_spec
SpotlightGetSpec(light) == FScaleVec(BoolAsF32(light.on), light.spec)

\* init_lighting: the flashlight built from the camera
InitFlashlight(camera) == SpotlightNew(camera.pos, camera.direction, <<1000, 1000, 1000>>, <<5000, 5000, 5000>>, <<5000, 5000, 5000>>, <<10000, 5000, 2500>>, ToRadians(1500), ToRadians(2000))

\* FlashlightController::new
FlashlightControllerNew == [on |-> FALSE]

\* FlashlightController::on_key_pressed
FlashlightControllerOnKeyPressed(c, keycode) ==
    IF keycode = "F" THEN [c EXCEPT !.on = ~c.on] ELSE c

\* Slot::on_signal of FlashlightController
FlashlightControllerOnSignal(c, signal) ==
    IF signal.type = "KeyPressed"
    THEN FlashlightControllerOnKeyPressed(c, signal.key)
    ELSE c

\* Controller::process_signals of Rc<RefCell<FlashlightController>>
FlashlightControllerProcessSignals(c, target) ==
    [ctl |-> c, target |-> [target EXCEPT !.on = c.on]]

-----------------------------------------------------------------------------
(* Program and ProgramController.  main.rs imports them from systems, whose  *)
(* source in the repository holds no such items; they follow the             *)
(* specification: a quit signal sets loop_active = false in the controller   *)
(* and process_signals hands the flag to the Program.                        *)

\* ProgramController::new
ProgramControllerNew == [loop_active |-> TRUE]

\* Slot::on_signal of ProgramController
ProgramControllerOnSignal(c, signal) ==
    IF signal.type = "Quit" THEN [c EXCEPT !.loop_active = FALSE] ELSE c

\* Controller::process_signals of Rc<RefCell<ProgramController>>
ProgramControllerProcessSignals(c, target) ==
    [ctl |-> c, target |-> [target EXCEPT !.loop_active = c.loop_active]]

-----------------------------------------------------------------------------
(* screen.rs: ScreenParameters and ScreenController; gamma in tenths *)

GAMMA == 22

\* the params of Screen::new
ScreenParametersNew == [sobel_on |-> FALSE, msaa_on |-> FALSE, gamma |-> GAMMA]

\* ScreenController::new
ScreenControllerNew == [sobel_on |-> FALSE, msaa_on |-> TRUE, gamma |-> GAMMA]

\* on_key_pressed without the saturation of gamma
ScreenControllerOnKeyPressedUnclamped(c, keycode) ==
    CASE keycode = "E" -> [c EXCEPT !.sobel_on = ~c.sobel_on]
      [] keycode = "M" -> [c EXCEPT !.msaa_on = ~c.msaa_on]
      [] keycode = "EQUALS" -> [c EXCEPT !.gamma = c.gamma + 2]
      [] keycode = "MINUS" -> [c EXCEPT !.gamma = c.gamma - 2]
      [] OTHER -> c

\* ScreenController::on_key_pressed
ScreenControllerOnKeyPressed(c, keycode) ==
    CASE keycode = "E" -> [c EXCEPT !.sobel_on = ~c.sobel_on]
      [] keycode = "M" -> [c EXCEPT !.msaa_on = ~c.msaa_on]
      [] keycode = "EQUALS" -> [c EXCEPT !.gamma = Min2(c.gamma + 2, 30)]
      [] keycode = "MINUS" -> [c EXCEPT !.gamma = Max2(c.gamma - 2, 10)]
      [] OTHER -> c

\* Slot::on_signal of ScreenController
ScreenControllerOnSignal(c, signal) ==
    IF signal.type = "KeyPressed"
    THEN ScreenControllerOnKeyPressed(c, signal.key)
    ELSE c

\* Controller::process_signals of Rc<RefCell<ScreenController>>
ScreenControllerProcessSignals(c, target) ==
    [ctl |-> c,
     target |-> [target EXCEPT !.sobel_on = c.sobel_on,
                         !.msaa_on = c.msaa_on,
                         !.gamma = c.gamma]]

-----------------------------------------------------------------------------
(* scene.rs: SceneParameters and SceneController *)

\* SceneParameters::init
SceneParametersInit == [visualize_normals |-> FALSE]

\* SceneController::new
SceneControllerNew == [visualize_normals |-> FALSE]

\* an on_key_pressed whose match has no arm that does nothing
SceneControllerOnAnyKey(c, keycode) == [c EXCEPT !.visualize_normals = ~c.visualize_normals]

\* SceneController::on_key_pressed
SceneControllerOnKeyPressed(c, keycode) ==
    IF keycode = "N" THEN [c EXCEPT !.visualize_normals = ~c.visualize_normals]
    ELSE c

\* Slot::on_signal of SceneController
SceneControllerOnSignal(c, signal) ==
    IF signal.type = "KeyPressed"
    THEN SceneControllerOnKeyPressed(c, signal.key)
    ELSE c

\* Controller::process_signals of Rc<RefCell<SceneController>>
SceneControllerProcessSignals(c, target) ==
    [ctl |-> c, target |-> [target EXCEPT !.visualize_normals = c.visualize_normals]]

-----------------------------------------------------------------------------
(* utils.rs: RandomTransform and RTController.  A RandomTransform keeps its  *)
(* two rates and counts the calls of update_axis and update_dir, whose       *)
(* results are random.                                                       *)

\* RandomTransform::continuous
RandomTransformContinuous(ang_rate, lin_rate) ==
    [ang_upd_rate |-> ang_rate, lin_upd_rate |-> lin_rate,
     axis_updates |-> 0, dir_updates |-> 0]

\* RTController::new
RTControllerNew == [tick_list |-> <<>>]

\* RTController::add_rts
RTControllerAddRts(c, transforms) ==
    [c EXCEPT !.tick_list =
        @ \o [i \in 1..Len(transforms) |->
                <<transforms[i].ang_upd_rate, transforms[i].lin_upd_rate>>]]

\* Slot::on_signal of RTController
RTControllerOnSignal(c, signal) == c

\* a counter that is never reloaded
RTTickNoReload(count, rate) == IF count >= 1 THEN count - 1 ELSE count

\* one counter of process_signals: at 1 it reloads the rate, above 1 it
\* counts down, at 0 it stays
RTTick(count, rate) ==
    IF count = 1 THEN rate ELSE IF count > 1 THEN count - 1 ELSE count

\* Controller::process_signals of Rc<RefCell<RTController>>
RTControllerProcessSignals(c, target) ==
    [ctl |-> [c EXCEPT !.tick_list =
                 [i \in 1..Len(c.tick_list) |->
                     <<RTTick(c.tick_list[i][1], target[i].ang_upd_rate),
                       RTTick(c.tick_list[i][2], target[i].lin_upd_rate)>>]],
     target |-> [i \in 1..Len(target) |->
                 IF i \in 1..Len(c.tick_list)
                 THEN [target[i] EXCEPT
                         !.axis_updates =
                             IF c.tick_list[i][1] = 1 THEN @ + 1 ELSE @,
                         !.dir_updates =
                             IF c.tick_list[i][2] = 1 THEN @ + 1 ELSE @]
                 ELSE target[i]]]

-----------------------------------------------------------------------------
(* controls.rs: SignalHandler.  The handler state h is the controllers       *)
(* (ctl, by slot), the signals handed to emit (emitted) and the record of    *)
(* the calls made on the controllers (log).                                  *)

\* the slots in the order ControllerHub::init connects them
Slots == <<"camera", "flashlight", "program", "screen", "scene", "rt">>

\* ControllerHub::init: the six controllers
ControllerHubInit(transforms) ==
    [camera |-> CameraControllerNew,
     flashlight |-> FlashlightControllerNew,
     program |-> ProgramControllerNew,
     screen |-> ScreenControllerNew,
     scene |-> SceneControllerNew,
     rt |-> RTControllerAddRts(RTControllerNew, transforms)]

\* dyn Slot::on_signal on the controller behind a slot
OnSignal(slot, c, signal) ==
    CASE slot = "camera" -> CameraControllerOnSignal(c, signal)
      [] slot = "flashlight" -> FlashlightControllerOnSignal(c, signal)
      [] slot = "program" -> ProgramControllerOnSignal(c, signal)
      [] slot = "screen" -> ScreenControllerOnSignal(c, signal)
      [] slot = "scene" -> SceneControllerOnSignal(c, signal)
      [] slot = "rt" -> RTControllerOnSignal(c, signal)

\* a handler loop that leaves out the last connected slot
RECURSIVE EmitFromSkipLast(_, _, _)
EmitFromSkipLast(h, signal_value, i) ==
    IF i >= Len(Slots) THEN h
    ELSE EmitFromSkipLast(
             [h EXCEPT !.ctl[Slots[i]] = OnSignal(Slots[i], @, signal_value),
                       !.log = Append(@, <<"on_signal", Slots[i], signal_value>>)],
             signal_value, i + 1)

\* the loop of SignalHandler::emit from slot i on
RECURSIVE EmitFrom(_, _, _)
EmitFrom(h, signal_value, i) ==
    IF i > Len(Slots) THEN h
    ELSE EmitFrom(
             [h EXCEPT !.ctl[Slots[i]] = OnSignal(Slots[i], @, signal_value),
                       !.log = Append(@, <<"on_signal", Slots[i], signal_value>>)],
             signal_value, i + 1)

\* SignalHandler::emit, as called by wait_event
Emit(h, signal_value) ==
    EmitFrom([h EXCEPT !.emitted = Append(@, signal_value)], signal_value, 1)

\* an insert that keeps the value a key already has
InsertKeepFirst(map, k, v) ==
    [x \in (DOMAIN map) \cup {k} |-> IF x \in DOMAIN map THEN map[x] ELSE v]

\* HashMap::insert
Insert(map, k, v) ==
    [x \in (DOMAIN map) \cup {k} |-> IF x = k THEN v ELSE map[x]]

\* the while loop of wait_event over the pending events
RECURSIVE PollEvents(_, _, _)
PollEvents(h, new_keys_state, events) ==
    IF events = <<>> THEN [h |-> h, new_keys_state |-> new_keys_state]
    ELSE LET event == Head(events)
         IN  CASE event.type = "Quit" ->
                    PollEvents(Emit(h, Quit), new_keys_state, Tail(events))
               [] event.type = "Keyboard" ->
                    PollEvents(h,
                               Insert(new_keys_state, event.keycode,
                                      event.is_pressed),
                               Tail(events))
               [] event.type = "MouseMotion" ->
                    PollEvents(Emit(h, MouseMoved(event.y_delta, event.x_delta)),
                               new_keys_state, Tail(events))
               [] event.type = "MouseWheel" ->
                    PollEvents(Emit(h, MouseScrolled(event.y_delta)),
                               new_keys_state, Tail(events))
               [] OTHER -> PollEvents(h, new_keys_state, Tail(events))

\* the for loop of wait_event over new_keys_state, visited in the order keys
RECURSIVE EmitKeys(_, _, _)
EmitKeys(h, new_keys_state, keys) ==
    IF keys = <<>> THEN h
    ELSE LET k == Head(keys)
         IN  EmitKeys(IF new_keys_state[k] THEN Emit(h, KeyPressed(k))
                      ELSE Emit(h, KeyReleased(k)),
                      new_keys_state, Tail(keys))

\* the key codes of the keyboard events of a poll
KeyCodes(events) ==
    {events[i].keycode : i \in {j \in 1..Len(events) : events[j].type = "Keyboard"}}

\* the orders in which a HashMap over the keys S can be iterated
IterationOrders(S) ==
    {s \in [1..Cardinality(S) -> S] :
        \A i, j \in 1..Cardinality(S) : i # j => s[i] # s[j]}

\* SignalHandler::wait_event on the pending events
WaitEvent(h, events, keys) ==
    LET r == PollEvents(h, <<>>, events)
    IN  EmitKeys(r.h, r.new_keys_state, keys)

-----------------------------------------------------------------------------
(* main.rs: ControllerHub::update and the run loop *)

\* the six process_signals calls of ControllerHub::update, in order
ProcessEntries ==
    [i \in 1..Len(Slots) |-> <<"process_signals", Slots[i]>>]

\* the process_signals calls of ControllerHub::update after wait_event has
\* left the handler state h
ControllerHubProcess(polled, h, camera, flashlight, prog, scr, params, transforms) ==
    Let(CameraControllerProcessSignals(h.ctl.camera, camera), LAMBDA c1 :
    Let(FlashlightControllerProcessSignals(h.ctl.flashlight, flashlight), LAMBDA c2 :
    Let(ProgramControllerProcessSignals(h.ctl.program, prog), LAMBDA c3 :
    Let(ScreenControllerProcessSignals(h.ctl.screen, scr), LAMBDA c4 :
    Let(SceneControllerProcessSignals(h.ctl.scene, params), LAMBDA c5 :
    Let(RTControllerProcessSignals(h.ctl.rt, transforms), LAMBDA c6 :
        [hub |-> [camera |-> c1.ctl, flashlight |-> c2.ctl, program |-> c3.ctl,
                  screen |-> c4.ctl, scene |-> c5.ctl, rt |-> c6.ctl],
         camera |-> c1.target, flashlight |-> c2.target, prog |-> c3.target,
         scr |-> c4.target, params |-> c5.target, transforms |-> c6.target,
         tick |-> [emitted |-> h.emitted,
                   log |-> h.log \o ProcessEntries,
                   applied |-> c1.applied,
                   polled |-> polled,
                   waited |-> h.ctl,
                   spot_on |-> flashlight.on]]))))))

\* ControllerHub::update: the new controllers and targets, and tick, the
\* record of what this update did
ControllerHubUpdate(hub, cycle_time, events, keys, camera, flashlight, prog, scr, params, transforms) ==
    Let([hub EXCEPT !.camera = CameraControllerSetSpeeds(@, cycle_time)],
        LAMBDA polled :
    Let(WaitEvent([ctl |-> polled, emitted |-> <<>>, log |-> <<>>], events, keys),
        LAMBDA h :
        ControllerHubProcess(polled, h, camera, flashlight, prog, scr, params,
                             transforms)))

\* a mirrored scene that keeps the camera
SceneMirroredSameCamera(s) == s

\* Scene::mirrored; objects, lighting, shaders and params are shared or copied
SceneMirrored(s) == [s EXCEPT !.camera = CameraInvert(@)]

\* a loop condition that ignores the flag
LoopConditionAlways(prog) == TRUE

\* the condition of the while loop
LoopCondition(prog) == prog.loop_active

\* the events one poll may return in the run-loop model
LoopEvents ==
    {[type |-> "Quit"],
     [type |-> "Keyboard", keycode |-> "F", is_pressed |-> TRUE],
     [type |-> "Keyboard", keycode |-> "D", is_pressed |-> TRUE],
     [type |-> "Keyboard", keycode |-> "D", is_pressed |-> FALSE],
     [type |-> "MouseMotion", x_delta |-> 3, y_delta |-> -2],
     [type |-> "MouseWheel", y_delta |-> 1],
     [type |-> "Window"]}

\* the pending events of one poll
EventSeqs(alphabet, n) == UNION {[1..k -> alphabet] : k \in 0..n}

\* elapsed milliseconds between two iterations
CycleTimes == {16}

\* the update rates init_random_transforms may draw, of 0..=1000
LoopRates == {<<0, 0>>}

\* the last two entries of a sequence
LastTwo(s) == IF Len(s) <= 2 THEN s ELSE SubSeq(s, Len(s) - 1, Len(s))

LoopInit ==
    /\ pc = "loop_check"
    /\ iter = 0
    /\ program_loop = [loop_active |-> TRUE]
    /\ main_camera = CameraNew(<<0, 0, -2 * FScale>>)
    /\ lighting = [spot |-> InitFlashlight(main_camera)]
    /\ screen = ScreenParametersNew
    /\ scene_params = SceneParametersInit
    /\ \E r \in LoopRates : rts = <<RandomTransformContinuous(r[1], r[2])>>
    /\ control_hub = ControllerHubInit(rts)
    /\ scene = NoValue
    /\ mirrored_scene = NoValue
    /\ frame = <<>>
    /\ swaps = 0
    /\ tick = NoValue
    /\ quitDispatched = FALSE
    /\ flashHist = <<>>

\* the while condition holds: an iteration starts
LoopEnter ==
    /\ UNCHANGED NotLoop
    /\ pc = "loop_check"
    /\ LoopCondition(program_loop)
    /\ iter < MaxIter
    /\ iter' = iter + 1
    /\ pc' = "poll"
    /\ frame' = <<>>
    /\ scene' = NoValue
    /\ mirrored_scene' = NoValue
    /\ UNCHANGED <<program_loop, control_hub, main_camera, lighting, screen,
                   scene_params, rts, swaps, tick, quitDispatched, flashHist>>

\* the while condition fails: main returns
LoopExit ==
    /\ UNCHANGED NotLoop
    /\ pc = "loop_check"
    /\ ~LoopCondition(program_loop)
    /\ pc' = "done"
    /\ UNCHANGED <<iter, program_loop, control_hub, main_camera, lighting,
                   screen, scene_params, rts, scene, mirrored_scene, frame,
                   swaps, tick, quitDispatched, flashHist>>

\* the poll interval has elapsed: control_hub.update
Update(alphabet) ==
    /\ UNCHANGED NotLoop
    /\ pc = "poll"
    /\ \E cycle_time \in CycleTimes, events \in EventSeqs(alphabet, MaxEvents) :
         \E keys \in IterationOrders(KeyCodes(events)) :
         \E u \in {ControllerHubUpdate(control_hub, cycle_time, events, keys,
                                        main_camera, lighting.spot, program_loop,
                                        screen, scene_params, rts)} :
           LET toggled == \E i \in 1..Len(u.tick.emitted) :
                             u.tick.emitted[i] = KeyPressed("F")
           IN  /\ control_hub' = u.hub
               /\ main_camera' = u.camera
               /\ lighting' = [lighting EXCEPT !.spot = u.flashlight]
               /\ program_loop' = u.prog
               /\ screen' = u.scr
               /\ scene_params' = u.params
               /\ rts' = u.transforms
               /\ tick' = u.tick
               /\ quitDispatched' =
                     (quitDispatched \/
                      \E i \in 1..Len(u.tick.emitted) : u.tick.emitted[i] = Quit)
               /\ flashHist' = IF toggled
                               THEN LastTwo(Append(flashHist, lighting.spot.on))
                               ELSE flashHist
    /\ pc' = "updated"
    /\ frame' = Append(frame, <<"control_hub", "update">>)
    /\ UNCHANGED <<iter, scene, mirrored_scene, swaps>>

LoopUpdate == Update(LoopEvents)

\* the poll interval has not elapsed: no update in this iteration
LoopSkipUpdate ==
    /\ UNCHANGED NotLoop
    /\ pc = "poll"
    /\ pc' = "prepare"
    /\ UNCHANGED <<iter, program_loop, control_hub, main_camera, lighting,
                   screen, scene_params, rts, scene, mirrored_scene, frame,
                   swaps, tick, quitDispatched, flashHist>>

\* last_update = Instant::now() after an update
LoopStamp ==
    /\ UNCHANGED NotLoop
    /\ pc = "updated"
    /\ pc' = "prepare"
    /\ tick' = NoValue
    /\ UNCHANGED <<iter, program_loop, control_hub, main_camera, lighting,
                   screen, scene_params, rts, scene, mirrored_scene, frame,
                   swaps, quitDispatched, flashHist>>

\* a frame prepared without refreshing the flashlight
LoopPrepareStale ==
    /\ UNCHANGED NotLoop
    /\ pc = "prepare"
    /\ scene' = [camera |-> main_camera, params |-> scene_params]
    /\ pc' = "draw_main"
    /\ UNCHANGED <<iter, program_loop, control_hub, main_camera, lighting,
                   screen, scene_params, rts, mirrored_scene, frame, swaps,
                   tick, quitDispatched, flashHist>>

\* the flashlight follows the camera and the Scene of the frame is built
LoopPrepare ==
    /\ UNCHANGED NotLoop
    /\ pc = "prepare"
    /\ lighting' = [lighting EXCEPT !.spot.pos = main_camera.pos,
                                    !.spot.dir = main_camera.direction]
    /\ scene' = [camera |-> main_camera, params |-> scene_params]
    /\ pc' = "draw_main"
    /\ UNCHANGED <<iter, program_loop, control_hub, main_camera, screen,
                   scene_params, rts, mirrored_scene, frame, swaps, tick,
                   quitDispatched, flashHist>>

\* one draw call of the frame: it is recorded and the loop moves on
Draw(at, call, next) ==
    /\ UNCHANGED NotLoop
    /\ pc = at
    /\ frame' = Append(frame, call)
    /\ pc' = next
    /\ UNCHANGED <<iter, program_loop, control_hub, main_camera, lighting,
                   screen, scene_params, rts, scene, swaps, tick,
                   quitDispatched, flashHist>>

\* screen.draw_on_framebuffer(scene)
LoopDrawMain ==
    /\ Draw("draw_main", <<"screen", "draw_on_framebuffer", "scene">>, "mirror")
    /\ UNCHANGED mirrored_scene

\* scene.mirrored() and mirrored_screen.draw_on_framebuffer(mirrored_scene)
LoopDrawMirrored ==
    /\ Draw("mirror",
            <<"mirrored_screen", "draw_on_framebuffer", "mirrored_scene">>,
            "draw_on_another")
    /\ mirrored_scene' = SceneMirrored(scene)

\* a frame that leaves out the blend of the mirrored screen
LoopSkipDrawOnAnother ==
    /\ UNCHANGED NotLoop
    /\ pc = "draw_on_another"
    /\ pc' = "draw_on_screen"
    /\ UNCHANGED <<iter, program_loop, control_hub, main_camera, lighting,
                   screen, scene_params, rts, scene, mirrored_scene, frame,
                   swaps, tick, quitDispatched, flashHist>>

\* mirrored_screen.draw_on_another(&screen, ...)
LoopDrawOnAnother ==
    /\ Draw("draw_on_another", <<"mirrored_screen", "draw_on_another", "screen">>,
            "draw_on_screen")
    /\ UNCHANGED mirrored_scene

\* screen.draw_on_screen()
LoopDrawOnScreen ==
    /\ Draw("draw_on_screen", <<"screen", "draw_on_screen">>, "swap")
    /\ UNCHANGED mirrored_scene

\* app.win.swap_window(), the end of the iteration
LoopSwap ==
    /\ UNCHANGED NotLoop
    /\ pc = "swap"
    /\ swaps' = swaps + 1
    /\ frame' = Append(frame, <<"win", "swap_window">>)
    /\ pc' = "loop_check"
    /\ UNCHANGED <<iter, program_loop, control_hub, main_camera, lighting,
                   screen, scene_params, rts, scene, mirrored_scene, tick,
                   quitDispatched, flashHist>>

LoopNext ==
    \/ LoopEnter
    \/ LoopExit
    \/ LoopUpdate
    \/ LoopSkipUpdate
    \/ LoopStamp
    \/ LoopPrepare
    \/ LoopDrawMain
    \/ LoopDrawMirrored
    \/ LoopDrawOnAnother
    \/ LoopDrawOnScreen
    \/ LoopSwap

-----------------------------------------------------------------------------
(* scene.rs: the sort of Scene::draw_objects.  A scene object of a Scene is a *)
(* name, a model matrix and an outline; positions are lengths in 1e-4.        *)

\* glm length
Length(v) == Sqrt(v[1] * v[1] + v[2] * v[2] + v[3] * v[3])

\* a.get_model().column(3).xyz()
ModelPosition(o) == <<o.model[1][4], o.model[2][4], o.model[3][4]>>

\* length(&(self.camera.get_pos() - a_pos))
CameraDistance(camera_pos, o) == Length(VSub(camera_pos, ModelPosition(o)))

\* f32::partial_cmp on two numbers
PartialCmp(x, y) == IF x < y THEN "Less" ELSE IF x > y THEN "Greater" ELSE "Equal"

\* a comparison that puts the nearer object first
DistanceCompareNearFirst(camera_pos, a, b) ==
    PartialCmp(CameraDistance(camera_pos, a), CameraDistance(camera_pos, b))

\* the closure distance_compare of draw_objects
DistanceCompare(camera_pos, a, b) ==
    PartialCmp(CameraDistance(camera_pos, b), CameraDistance(camera_pos, a))

\* the place of x in a sorted sequence: before the first element it is Less
\* than, so that equal elements keep their order
RECURSIVE InsertPlace(_, _, _, _)
InsertPlace(camera_pos, sorted, x, i) ==
    IF i > Len(sorted) THEN i
    ELSE IF DistanceCompare(camera_pos, x, sorted[i]) = "Less" THEN i
    ELSE InsertPlace(camera_pos, sorted, x, i + 1)

\* slice::sort_by(distance_compare), a stable sort
RECURSIVE SortByDistance(_, _, _)
SortByDistance(camera_pos, sorted, rest) ==
    IF rest = <<>> THEN sorted
    ELSE Let(InsertPlace(camera_pos, sorted, Head(rest), 1), LAMBDA i :
             SortByDistance(camera_pos,
                            SubSeq(sorted, 1, i - 1) \o <<Head(rest)>>
                                \o SubSeq(sorted, i, Len(sorted)),
                            Tail(rest)))

\* the objects of a Scene after the sort of draw_objects
SortedObjects(camera_pos, objects) == SortByDistance(camera_pos, <<>>, objects)

\* positions of the camera and of the objects handed to the sort
SortCameras == {<<0, 0, -2 * FScale>>, <<FScale, 0, 0>>}

SortPositions ==
    {<<0, 0, 0>>, <<FScale, 0, 0>>, <<0, FScale, 0>>, <<-FScale, 0, FScale>>}

\* a scene object at a position; outlined says whether it has an outline
SceneObjectAt(name, position, outlined) ==
    [name |-> name,
     model |-> SpatialTranslate(Identity4, position),
     outline |-> <<0, 0, 0, IF outlined THEN 1 ELSE 0>>]

\* the object lists handed to the sort: up to MaxObjects objects
ObjectLists ==
    UNION {{[i \in 1..n |-> SceneObjectAt(i, places[i], FALSE)] :
              places \in [1..n -> SortPositions]} : n \in 0..MaxObjects}

SortInit ==
    /\ \E camera_pos \in SortCameras, objects \in ObjectLists :
          fcall = [op |-> "scene", camera_pos |-> camera_pos, objects |-> objects]

\* the sort of draw_objects on the objects of the scene
SortObjects ==
    /\ UNCHANGED NotCall
    /\ fcall.op = "scene"
    /\ fcall' = [op |-> "sort_by",
                 camera_pos |-> fcall.camera_pos,
                 objects |-> fcall.objects,
                 sorted |-> SortedObjects(fcall.camera_pos, fcall.objects)]

SortNext == SortObjects

\* Program::set_spotlight: the uniforms written for the light `name`
SetSpotlight(name, value) == [uniform |-> name, position |-> value.pos, direction |-> value.dir, constant |-> value.att[1], linear |-> value.att[2], quadratic |-> value.att[3], ambient |-> SpotlightGetAmb(value), diffuse |-> SpotlightGetDiff(value), specular |-> SpotlightGetSpec(value), phiCos |-> Cos(value.phi), gammaCos |-> Cos(value.gamma)]

\* colours a spotlight is built with (finite components, 1e-4 units)
LightColours == {<<0, 0, 0>>, <<1000, 1000, 1000>>, <<5000, 5000, 5000>>, <<-FScale, 2 * FScale, 3>>}

\* a spotlight at the camera of App::init, switched either way
SpotlightInit ==
    \E amb \in LightColours, diff \in LightColours, spec \in LightColours, on \in BOOLEAN :
        fcall = [op |-> "spotlight", light |-> [SpotlightNew(<<0, 0, -2 * FScale>>, <<0, 0, FScale>>, amb, diff, spec, <<10000, 5000, 2500>>, ToRadians(1500), ToRadians(2000)) EXCEPT !.on = on]]

\* Scene::set_lighting_uniforms: the spotlight part
SetLightingUniforms ==
    /\ UNCHANGED NotCall
    /\ fcall.op = "spotlight"
    /\ fcall' = [op |-> "set_spotlight", light |-> fcall.light, uniforms |-> SetSpotlight("spotlight", fcall.light)]

SpotlightNext == SetLightingUniforms

\* positions a camera is constructed at; the first is that of App::init
WalkPositions == {<<0, 0, -2 * FScale>>, <<0, 0, 2 * FScale>>, <<2 * FScale, 0, 0>>, <<-2 * FScale, 0, 0>>, <<-2 * FScale, 0, 2 * FScale>>, <<FScale, FScale, -FScale>>, <<FScale, 0, FScale>>, <<0, FScale, -FScale>>}

\* offsets handed to translate_forward
WalkOffsets == {-2 * FScale, -FScale, -5000, 0, 5000, FScale, 2 * FScale}

\* Camera::new at one of the positions
WalkInit ==
    \E initial_pos \in WalkPositions, offset \in WalkOffsets :
        fcall = [op |-> "camera", offset |-> offset, before |-> CameraNew(initial_pos), camera |-> CameraNew(initial_pos)]

\* one call of Camera::translate_forward
WalkForward ==
    /\ UNCHANGED NotCall
    /\ fcall.op = "camera"
    /\ fcall' = [fcall EXCEPT !.op = "translate_forward", !.camera = CameraTranslateForward(fcall.camera, fcall.offset)]

WalkNext == WalkForward

\* Vertex::new
VertexNew(posx, posy, posz) == [pos |-> <<posx, posy, posz>>, normal |-> <<0, 0, 0>>, tex_coords |-> <<0, 0, 0>>]

\* the element of a Vec at a 0-based index
At(vec, i) == vec[i + 1]

\* BasicMesh::cube: the vertex list before the normals are set
CubeVertices(side) ==
    LET h == side \div 2
    IN  <<VertexNew(-h, h, -h), VertexNew(h, h, -h), VertexNew(-h, h, h), VertexNew(h, h, h),
          VertexNew(-h, -h, -h), VertexNew(h, -h, -h), VertexNew(-h, -h, h), VertexNew(h, -h, h),
          VertexNew(h, h, -h), VertexNew(-h, h, -h), VertexNew(h, -h, -h), VertexNew(-h, -h, -h),
          VertexNew(h, h, h), VertexNew(h, h, -h), VertexNew(h, -h, h), VertexNew(h, -h, -h),
          VertexNew(-h, h, h), VertexNew(h, h, h), VertexNew(-h, -h, h), VertexNew(h, -h, h),
          VertexNew(-h, h, -h), VertexNew(-h, h, h), VertexNew(-h, -h, -h), VertexNew(-h, -h, h)>>

\* BasicMesh::cube: the index list
CubeIndices == <<0, 2, 1, 1, 2, 3, 4, 5, 6, 6, 5, 7, 8, 10, 9, 9, 10, 11, 12, 14, 13, 13, 14, 15, 16, 18, 17, 17, 18, 19, 20, 22, 21, 21, 22, 23>>

\* BasicMesh::cube: the face normal of the first triangle of face i
CubeFirstNormal(vertices, i) ==
    LET main_vertex == At(vertices, At(CubeIndices, i * 6))
        v1 == At(vertices, At(CubeIndices, i * 6 + 1))
        v2 == At(vertices, At(CubeIndices, i * 6 + 2))
    IN  Normalize(FCross(VSub(v1.pos, main_vertex.pos), VSub(v2.pos, main_vertex.pos)))

\* BasicMesh::cube: the face normal of the second triangle of face i
CubeSecondNormal(vertices, i) ==
    LET v1 == At(vertices, At(CubeIndices, i * 6 + 1))
        v2 == At(vertices, At(CubeIndices, i * 6 + 2))
        opposite_vertex == At(vertices, At(CubeIndices, i * 6 + 5))
    IN  Normalize(FCross(VSub(v2.pos, opposite_vertex.pos), VSub(v1.pos, opposite_vertex.pos)))

\* BasicMesh::cube: one round of `for i in 0..6`, adding to `normals`
CubeAddFace(vertices, normals, i) ==
    LET first == CubeFirstNormal(vertices, i)
        second == CubeSecondNormal(vertices, i)
        n1 == [normals EXCEPT ![At(CubeIndices, i * 6) + 1] = VAdd(@, first)]
        n2 == [n1 EXCEPT ![At(CubeIndices, i * 6 + 1) + 1] = VAdd(@, first)]
        n3 == [n2 EXCEPT ![At(CubeIndices, i * 6 + 2) + 1] = VAdd(@, first)]
    IN  [n3 EXCEPT ![At(CubeIndices, i * 6 + 5) + 1] = VAdd(@, second)]

RECURSIVE CubeAddFaces(_, _, _)
\* BasicMesh::cube: `for i in 0..6` from round i on
CubeAddFaces(vertices, normals, i) ==
    IF i >= 6 THEN normals
    ELSE CubeAddFaces(vertices, CubeAddFace(vertices, normals, i), i + 1)

\* BasicMesh::cube: the accumulated normals
CubeNormals(vertices) == CubeAddFaces(vertices, [i \in 1..24 |-> <<0, 0, 0>>], 0)

\* `normals[i] / 4.0`
CubeStoredNormal(normal) == <<RoundDiv(normal[1], 4), RoundDiv(normal[2], 4), RoundDiv(normal[3], 4)>>

\* BasicMesh::cube
BasicMeshCube(side) ==
    LET vertices == CubeVertices(side)
    IN  Let(CubeNormals(vertices), LAMBDA normals :
            [vertices |-> [i \in 1..24 |-> [vertices[i] EXCEPT !.normal = CubeStoredNormal(normals[i]), !.tex_coords = <<(i - 1) % 2, ((i - 1) \div 2) % 2, 0>>]],
             indices |-> CubeIndices,
             cull_faces |-> TRUE])

\* cube sides, in steps of 0.025
CubeSides == {k * 250 : k \in 1..MaxSide}

CubeInit == \E side \in CubeSides : fcall = [op |-> "mesh", side |-> side]

\* one call of BasicMesh::cube
CubeBuild ==
    /\ UNCHANGED NotCall
    /\ fcall.op = "mesh"
    /\ fcall' = [op |-> "cube", side |-> fcall.side, mesh |-> BasicMeshCube(fcall.side)]

CubeNext == CubeBuild

-----------------------------------------------------------------------------
(* The GL context, and the GL calls the draw methods issue *)

\* init_sdl: StencilSize 8, so a stencil mask of all ones is 0xFF
StencilAllOnes == 2^8 - 1

\* init_glwindow: the window size, which is the first viewport
WindowViewport == <<0, 0, 600, 600>>

\* screen.rs SHADOW_RESOLUTION
SHADOW_RESOLUTION == <<1024, 1024>>

\* the state of a fresh GL context (the initial values of the GL specification)
GLDefault ==
    [depth_test |-> FALSE, stencil_test |-> FALSE, blend |-> FALSE,
     cull_face |-> FALSE, multisample |-> TRUE,
     cull_mode |-> "GL_BACK", depth_func |-> "GL_LESS",
     stencil_func |-> <<"GL_ALWAYS", 0, StencilAllOnes>>,
     stencil_mask |-> StencilAllOnes,
     stencil_op |-> <<"GL_KEEP", "GL_KEEP", "GL_KEEP">>,
     viewport |-> WindowViewport, framebuffer |-> 0, program |-> "none"]

\* one call: its name and up to two arguments
Cmd(name, a, b) == [cmd |-> name, a |-> a, b |-> b]

\* glEnable and glDisable on the capabilities the program uses
SetCapability(g, cap, on) ==
    CASE cap = "GL_DEPTH_TEST" -> [g EXCEPT !.depth_test = on]
      [] cap = "GL_STENCIL_TEST" -> [g EXCEPT !.stencil_test = on]
      [] cap = "GL_BLEND" -> [g EXCEPT !.blend = on]
      [] cap = "GL_CULL_FACE" -> [g EXCEPT !.cull_face = on]
      [] cap = "GL_MULTISAMPLE" -> [g EXCEPT !.multisample = on]
      [] OTHER -> g

\* the effect of one call on the GL context
GLStep(g, c) ==
    CASE c.cmd = "glEnable" -> SetCapability(g, c.a, TRUE)
      [] c.cmd = "glDisable" -> SetCapability(g, c.a, FALSE)
      [] c.cmd = "glStencilFunc" -> [g EXCEPT !.stencil_func = c.a]
      [] c.cmd = "glStencilMask" -> [g EXCEPT !.stencil_mask = c.a]
      [] c.cmd = "glStencilOp" -> [g EXCEPT !.stencil_op = c.a]
      [] c.cmd = "glDepthFunc" -> [g EXCEPT !.depth_func = c.a]
      [] c.cmd = "glCullFace" -> [g EXCEPT !.cull_mode = c.a]
      [] c.cmd = "glViewport" -> [g EXCEPT !.viewport = c.a]
      [] c.cmd = "glBindFramebuffer" -> [g EXCEPT !.framebuffer = c.a]
      [] c.cmd = "use_program" -> [g EXCEPT !.program = c.a]
      [] OTHER -> g

\* the counter when no binding increments it
TexCountStepNoIncrement(count, c) == IF c.cmd = "reset_tex_count" THEN 0 ELSE count

\* ShaderProgram::reset_tex_count and increment_tex_count on TEX_COUNT; the
\* calls that bind a texture to a uniform end with increment_tex_count
TexCountStep(count, c) ==
    CASE c.cmd = "reset_tex_count" -> 0
      [] c.cmd = "set_texture" -> count + 1
      [] OTHER -> count

\* one call executed: it is recorded with the context and the counter it
\* met; m_viewport is the local of generate_shadow_maps
Execute(m, c) ==
    [gl |-> IF c.cmd = "glViewport_saved" THEN [m.gl EXCEPT !.viewport = m.m_viewport] ELSE GLStep(m.gl, c),
     TEX_COUNT |-> TexCountStep(m.TEX_COUNT, c),
     m_viewport |-> IF c.cmd = "glGetIntegerv" THEN m.gl.viewport ELSE m.m_viewport,
     calls |-> Append(m.calls, [cmd |-> c, gl |-> m.gl, unit |-> m.TEX_COUNT])]

RECURSIVE ExecuteRange(_, _, _, _)
\* the calls lo..hi of a list executed in order (the list is halved to keep
\* the evaluation shallow)
ExecuteRange(m, cmds, lo, hi) ==
    IF lo > hi THEN m
    ELSE IF lo = hi THEN Execute(m, cmds[lo])
    ELSE Let(ExecuteRange(m, cmds, lo, (lo + hi) \div 2),
             LAMBDA half : ExecuteRange(half, cmds, (lo + hi) \div 2 + 1, hi))

\* a top-level method run on the context: the record of its calls starts empty
ExecuteAll(context, count, cmds) ==
    Let(cmds, LAMBDA list :
        ExecuteRange([gl |-> context, TEX_COUNT |-> count, m_viewport |-> <<0, 0, 0, 0>>, calls |-> <<>>], list, 1, Len(list)))

RECURSIVE Concat(_)
\* the lists of a list, one after the other
Concat(lists) == IF lists = <<>> THEN <<>> ELSE Head(lists) \o Concat(Tail(lists))

\* App::init
AppInitCalls ==
    <<Cmd("glEnable", "GL_MULTISAMPLE", 0), Cmd("glEnable", "GL_DEPTH_TEST", 0),
      Cmd("glEnable", "GL_STENCIL_TEST", 0), Cmd("glEnable", "GL_BLEND", 0),
      Cmd("glEnable", "GL_CULL_FACE", 0),
      Cmd("glBlendFunc", "GL_SRC_ALPHA", "GL_ONE_MINUS_SRC_ALPHA"),
      Cmd("glStencilOp", <<"GL_KEEP", "GL_KEEP", "GL_REPLACE">>, 0)>>

\* ShaderProgram::set_texture2D, set_texture2D_multisample and set_cubemap:
\* one texture bound to the uniform `name`
SetTexture(kind, name) == Cmd("set_texture", kind, name)

\* the texture bindings of one kind of map in set_material: the loaded maps,
\* or one empty texture when there is none
MaterialMaps(kind, loaded) ==
    [i \in 1..Max2(loaded, 1) |-> SetTexture("set_material", <<kind, i - 1>>)]

\* ShaderProgram::set_material
SetMaterial(material) ==
    MaterialMaps("diffuseTextures", material[1]) \o MaterialMaps("specularTextures", material[2])
        \o <<Cmd("set_1f", "material.shininess", 0), Cmd("set_1i", "material.loadedDiffuse", Max2(material[1], 1)), Cmd("set_1i", "material.loadedSpecular", Max2(material[2], 1))>>

\* BasicMesh::draw and instanced_draw: the draw of `object` in a pass
MeshDraw(object, pass) == SetMaterial(object.material) \o <<Cmd("draw", pass, object.name)>>

\* SceneObject::has_outline
HasOutline(object) == object.outline[4] > 0

\* SceneObject::draw_outline
DrawOutline(object) ==
    <<Cmd("glStencilFunc", <<"GL_NOTEQUAL", 1, 255>>, 0), Cmd("glStencilMask", 0, 0), Cmd("glDisable", "GL_DEPTH_TEST", 0), Cmd("set_3f", "outlineColor", 0)>>
        \o MeshDraw(object, "outline")
        \o <<Cmd("glStencilMask", 255, 0), Cmd("glStencilFunc", <<"GL_ALWAYS", 1, 255>>, 0), Cmd("glEnable", "GL_DEPTH_TEST", 0)>>

\* Screen::clear_buffers
ClearBuffers == <<Cmd("glClearColor", "clear_color", 0), Cmd("glClear", "COLOR|DEPTH|STENCIL", 0)>>

\* Scene::draw_shadows
DrawShadows(scn) ==
    Concat([i \in 1..Len(scn.objects) |-> <<Cmd("set_model_mat", scn.objects[i].name, 0)>> \o MeshDraw(scn.objects[i], "shadow")])

\* Scene::set_shadow_map
SetShadowMap(scn, light_name) ==
    <<Cmd("set_projection_mat", light_name, 0), Cmd("set_view_mat", light_name, 0), Cmd("use_program", "shadow_shader", 0)>>
        \o DrawShadows(scn)
        \o <<Cmd("use_program", "object_shader", 0), Cmd("set_matrix_4fv", light_name, "SpaceMatrix"), SetTexture("set_texture2D", <<light_name, "shadow_map">>)>>

\* Scene::set_shadow_maps
SetShadowMaps(scn) ==
    <<Cmd("glViewport", <<0, 0, SHADOW_RESOLUTION[1], SHADOW_RESOLUTION[2]>>, 0), Cmd("glCullFace", "GL_FRONT", 0)>>
        \o SetShadowMap(scn, "dirLight")
        \o <<Cmd("glCullFace", "GL_BACK", 0)>>

\* Screen::generate_shadow_maps
GenerateShadowMaps(scr, scn) ==
    <<Cmd("glBindFramebuffer", scr.sfbo.id, 0), Cmd("glGetIntegerv", "GL_VIEWPORT", 0)>>
        \o ClearBuffers
        \o SetShadowMaps(scn)
        \o <<Cmd("glViewport_saved", 0, 0), Cmd("glBindFramebuffer", 0, 0)>>

\* a draw_skybox that leaves the state as the skybox needs it
DrawSkyboxNoRestore(scn) ==
    <<Cmd("glDisable", "GL_STENCIL_TEST", 0), Cmd("glDisable", "GL_CULL_FACE", 0), Cmd("glDepthFunc", "GL_LEQUAL", 0)>>
        \o Concat([i \in 1..scn.skyboxes |-> <<SetTexture("set_cubemap", "skybox"), Cmd("draw", "skybox", i)>>])

\* Scene::draw_skybox
DrawSkybox(scn) ==
    <<Cmd("glDisable", "GL_STENCIL_TEST", 0), Cmd("glDisable", "GL_CULL_FACE", 0), Cmd("glDepthFunc", "GL_LEQUAL", 0)>>
        \o Concat([i \in 1..scn.skyboxes |-> <<SetTexture("set_cubemap", "skybox"), Cmd("draw", "skybox", i)>>])
        \o <<Cmd("glEnable", "GL_STENCIL_TEST", 0), Cmd("glEnable", "GL_CULL_FACE", 0), Cmd("glDepthFunc", "GL_LESS", 0)>>

\* draw_objects: what is drawn for one object, outline after all objects left aside
DrawObjectNoOutline(scn, object) ==
    <<Cmd("set_model_mat", object.name, 0)>>
        \o MeshDraw(object, "opaque")
        \o (IF scn.params.visualize_normals
            THEN <<Cmd("use_program", "debug_shader", 0)>> \o MeshDraw(object, "normals") \o <<Cmd("use_program", "object_shader", 0)>>
            ELSE <<>>)

\* draw_objects: the outline of one object
DrawObjectOutline(object) ==
    IF HasOutline(object)
    THEN <<Cmd("use_program", "outline_shader", 0), Cmd("set_model_mat", object.name, "outline_scale")>> \o DrawOutline(object) \o <<Cmd("use_program", "object_shader", 0)>>
    ELSE <<>>

\* draw_objects with the outlines drawn after the last object
DrawSortedBatched(scn, sorted) ==
    Concat([i \in 1..Len(sorted) |-> DrawObjectNoOutline(scn, sorted[i])])
        \o Concat([i \in 1..Len(sorted) |-> DrawObjectOutline(sorted[i])])

\* Scene::draw_objects: the loop over the sorted objects
DrawSorted(scn, sorted) ==
    Concat([i \in 1..Len(sorted) |-> DrawObjectNoOutline(scn, sorted[i]) \o DrawObjectOutline(sorted[i])])

\* Scene::draw_objects
DrawObjects(scn) == DrawSorted(scn, SortedObjects(scn.camera.pos, scn.objects))

\* Scene::compose with the objects drawn before the skybox
ComposeObjectsFirst(scn) ==
    <<Cmd("use_program", "object_shader", 0)>> \o DrawObjects(scn) \o <<Cmd("use_program", "skybox_shader", 0)>> \o DrawSkybox(scn)

\* Scene::compose
Compose(scn) ==
    <<Cmd("set_projection_mat", "perspective", 0), Cmd("set_view_mat", "skybox_view", 0), Cmd("use_program", "skybox_shader", 0)>>
        \o DrawSkybox(scn)
        \o <<Cmd("set_view_mat", "look_at", 0), Cmd("use_program", "object_shader", 0), Cmd("set_lighting_uniforms", 0, 0), Cmd("set_3f", "viewPos", 0)>>
        \o DrawObjects(scn)

\* Screen::draw_on_framebuffer
DrawOnFramebuffer(scr, scn) ==
    <<Cmd("reset_tex_count", 0, 0)>>
        \o GenerateShadowMaps(scr, scn)
        \o <<Cmd("glBindFramebuffer", scr.fbo.id, 0)>>
        \o ClearBuffers
        \o Compose(scn)
        \o <<Cmd("glBindFramebuffer", 0, 0)>>

\* Screen::draw_on_another
DrawOnAnother(scr, other) ==
    <<Cmd("glBindFramebuffer", other.fbo.id, 0), Cmd("bind_base", 0, 0), Cmd("glDisable", "GL_DEPTH_TEST", 0),
      Cmd("reset_tex_count", 0, 0), Cmd("use_program", "screen_shader", 0), Cmd("set_1f", "gamma", 10),
      SetTexture("set_texture2D_multisample", "screenTexture"), Cmd("set_model_mat", "canvas", 0),
      Cmd("draw", "canvas", scr.fbo.id), Cmd("glEnable", "GL_DEPTH_TEST", 0)>>

\* Screen::draw_on_screen
DrawOnScreen(scr) ==
    <<Cmd("glBindFramebuffer", 0, 0), Cmd("bind_base", 0, 0), Cmd("glClearColor", "white", 0), Cmd("glClear", "COLOR", 0),
      Cmd("glDisable", "GL_DEPTH_TEST", 0), Cmd("reset_tex_count", 0, 0), Cmd("use_program", "screen_shader", 0),
      Cmd("set_1f", "gamma", scr.params.gamma), SetTexture("set_texture2D_multisample", "screenTexture"),
      Cmd("set_1i", "sampleCount", 0), Cmd("set_1b", "applySobel", scr.params.sobel_on), Cmd("set_1b", "applyMSAA", scr.params.msaa_on),
      Cmd("set_model_mat", "canvas", 0), Cmd("draw", "canvas", scr.fbo.id), Cmd("glEnable", "GL_DEPTH_TEST", 0)>>

\* glCheckFramebufferStatus: what it may answer
FramebufferStatuses == {"GL_FRAMEBUFFER_COMPLETE", "GL_FRAMEBUFFER_INCOMPLETE_ATTACHMENT", "GL_FRAMEBUFFER_INCOMPLETE_MULTISAMPLE", "GL_FRAMEBUFFER_UNSUPPORTED"}

\* a setup that goes on whatever the status is
FramebufferSetupUnchecked(status) == "ok"

\* Framebuffer::setup and ShadowFramebuffer::setup: the status check after
\* the attachments
FramebufferSetup(status) == IF status # "GL_FRAMEBUFFER_COMPLETE" THEN "panic" ELSE "ok"

\* the materials of the objects: loaded diffuse and specular maps
MaterialOf(name) == <<name % 3, (name + 1) % 2>>

\* where the objects of the frames stand
RenderPositions == {<<0, 0, 0>>, <<FScale, 0, 0>>}

\* init_obj_list: up to MaxObjects objects, outlined or not
RenderObjectLists ==
    UNION {{[i \in 1..n |-> SceneObjectAt(i, places[i], outlined[i]) @@ [material |-> MaterialOf(i)]] :
              places \in [1..n -> RenderPositions], outlined \in [1..n -> BOOLEAN]} : n \in 0..MaxObjects}

\* main before App::init
RenderInit ==
    /\ rpc = "app_init"
    /\ gl = GLDefault
    /\ TEX_COUNT = 0
    /\ screens = <<>>
    /\ fb_status = <<>>
    /\ \E objects_list \in RenderObjectLists :
          world = [objects_list |-> objects_list, camera |-> CameraNew(<<0, 0, -2 * FScale>>), params |-> SceneParametersInit, scene |-> NoValue, mirrored_scene |-> NoValue]
    /\ calls = <<>>
    /\ frames = 0

\* the calls of a method met the context; main goes on at `next`
IssueCalls(cmds, next) ==
    /\ \E m \in {ExecuteAll(gl, TEX_COUNT, cmds)} :
          /\ gl' = m.gl
          /\ TEX_COUNT' = m.TEX_COUNT
          /\ calls' = m.calls
    /\ rpc' = next

\* App::init
RenderAppInit ==
    /\ UNCHANGED NotRender
    /\ rpc = "app_init"
    /\ IssueCalls(AppInitCalls, "screen_new")
    /\ UNCHANGED <<screens, fb_status, world, frames>>

\* Screen::new: the framebuffer is set up, then the shadow framebuffer; the
\* ids are those of the k-th screen
ScreenNew ==
    /\ UNCHANGED NotRender
    /\ rpc = "screen_new"
    /\ \E fbo_status \in FramebufferStatuses, sfbo_status \in FramebufferStatuses :
          LET k == Len(screens) + 1
              fbo == [id |-> 2 * k - 1, status |-> fbo_status]
              sfbo == [id |-> 2 * k, status |-> sfbo_status]
          IN  IF FramebufferSetup(fbo_status) = "panic"
              THEN /\ fb_status' = Append(fb_status, fbo_status)
                   /\ gl' = [gl EXCEPT !.framebuffer = fbo.id]
                   /\ rpc' = "panicked"
                   /\ UNCHANGED screens
              ELSE IF FramebufferSetup(sfbo_status) = "panic"
              THEN /\ fb_status' = fb_status \o <<fbo_status, sfbo_status>>
                   /\ gl' = [gl EXCEPT !.framebuffer = sfbo.id]
                   /\ rpc' = "panicked"
                   /\ UNCHANGED screens
              ELSE /\ fb_status' = fb_status \o <<fbo_status, sfbo_status>>
                   /\ gl' = [gl EXCEPT !.framebuffer = 0]
                   /\ screens' = Append(screens, [fbo |-> fbo, sfbo |-> sfbo, params |-> ScreenParametersNew])
                   /\ rpc' = IF k = 2 THEN "update" ELSE "screen_new"
    /\ UNCHANGED <<TEX_COUNT, world, calls, frames>>

\* the camera of a frame: where main creates it, or moved and turned by 30
\* degrees of pitch and 45 of yaw
RenderCameras ==
    {CameraNew(<<0, 0, -2 * FScale>>),
     CameraRotate(CameraNew(<<2 * FScale, 0, 0>>), <<3000, 4500, 0>>)}

\* control_hub.update: it leaves the camera somewhere and the normals shown or not
RenderUpdate ==
    /\ UNCHANGED NotRender
    /\ rpc = "update"
    /\ frames < MaxFrames
    /\ \E camera \in RenderCameras, visualize_normals \in BOOLEAN :
          world' = [world EXCEPT !.camera = camera, !.params.visualize_normals = visualize_normals]
    /\ rpc' = "draw_main"
    /\ UNCHANGED <<gl, TEX_COUNT, screens, fb_status, calls, frames>>

\* the Scene built in the loop from objects_list
SceneOf(w) == [objects |-> w.objects_list, skyboxes |-> 1, shaders |-> "shaders", camera |-> w.camera, lighting |-> "lighting", params |-> w.params]

\* what draw_objects leaves in the scene: the objects sorted
SceneDrawn(scn) == [scn EXCEPT !.objects = SortedObjects(scn.camera.pos, scn.objects)]

\* screen.draw_on_framebuffer(scene)
RenderMain ==
    /\ UNCHANGED NotRender
    /\ rpc = "draw_main"
    /\ IssueCalls(DrawOnFramebuffer(screens[1], SceneOf(world)), "mirror")
    /\ world' = [world EXCEPT !.scene = SceneDrawn(SceneOf(world))]
    /\ UNCHANGED <<screens, fb_status, frames>>

\* scene.mirrored() and mirrored_screen.draw_on_framebuffer(mirrored_scene)
RenderMirrored ==
    /\ UNCHANGED NotRender
    /\ rpc = "mirror"
    /\ IssueCalls(DrawOnFramebuffer(screens[2], SceneMirrored(world.scene)), "draw_on_another")
    /\ world' = [world EXCEPT !.mirrored_scene = SceneDrawn(SceneMirrored(world.scene))]
    /\ UNCHANGED <<screens, fb_status, frames>>

\* mirrored_screen.draw_on_another(&screen, ...)
RenderOnAnother ==
    /\ UNCHANGED NotRender
    /\ rpc = "draw_on_another"
    /\ IssueCalls(DrawOnAnother(screens[2], screens[1]), "draw_on_screen")
    /\ UNCHANGED <<screens, fb_status, world, frames>>

\* screen.draw_on_screen()
RenderOnScreen ==
    /\ UNCHANGED NotRender
    /\ rpc = "draw_on_screen"
    /\ IssueCalls(DrawOnScreen(screens[1]), "swap")
    /\ UNCHANGED <<screens, fb_status, world, frames>>

\* app.win.swap_window(); the scenes of the iteration are dropped
RenderSwap ==
    /\ UNCHANGED NotRender
    /\ rpc = "swap"
    /\ frames' = frames + 1
    /\ world' = [world EXCEPT !.scene = NoValue, !.mirrored_scene = NoValue]
    /\ rpc' = "update"
    /\ UNCHANGED <<gl, TEX_COUNT, screens, fb_status, calls>>

RenderNext ==
    \/ RenderAppInit
    \/ ScreenNew
    \/ RenderUpdate
    \/ RenderMain
    \/ RenderMirrored
    \/ RenderOnAnother
    \/ RenderOnScreen
    \/ RenderSwap

-----------------------------------------------------------------------------
(* One controller, the signals it receives and its process_signals *)

\* the signals a controller may receive
HubSignals ==
    {Quit, MouseMoved(3, -2), MouseScrolled(1)}
        \cup {KeyPressed(k) : k \in {"W", "F", "E", "N", "Q"}}
        \cup {KeyReleased(k) : k \in {"W", "Q"}}

\* the arms of the controllers' matches that do something
Handled(slot, signal) ==
    CASE slot = "camera" ->
            \/ signal.type \in {"MouseMoved", "MouseScrolled"}
            \/ /\ signal.type \in {"KeyPressed", "KeyReleased"}
               /\ signal.key \in {"D", "A", "SPACE", "LCTRL", "S", "W"}
      [] slot = "flashlight" -> signal.type = "KeyPressed" /\ signal.key = "F"
      [] slot = "program" -> signal.type = "Quit"
      [] slot = "screen" -> signal.type = "KeyPressed" /\ signal.key \in {"E", "M", "EQUALS", "MINUS"}
      [] slot = "scene" -> signal.type = "KeyPressed" /\ signal.key = "N"
      [] slot = "rt" -> FALSE

\* ControllerHub::init and main: the controller behind a slot, with the
\* speeds of a 16 ms cycle, and the entity it controls
HubController(slot) ==
    CASE slot = "camera" -> CameraControllerSetSpeeds(CameraControllerNew, 16)
      [] slot = "flashlight" -> FlashlightControllerNew
      [] slot = "program" -> ProgramControllerNew
      [] slot = "screen" -> ScreenControllerNew
      [] slot = "scene" -> SceneControllerNew
      [] slot = "rt" -> RTControllerAddRts(RTControllerNew, <<RandomTransformContinuous(2, 1)>>)

HubTarget(slot) ==
    CASE slot = "camera" -> CameraNew(<<0, 0, -2 * FScale>>)
      [] slot = "flashlight" -> InitFlashlight(CameraNew(<<0, 0, -2 * FScale>>))
      [] slot = "program" -> [loop_active |-> TRUE]
      [] slot = "screen" -> ScreenParametersNew
      [] slot = "scene" -> SceneParametersInit
      [] slot = "rt" -> <<RandomTransformContinuous(2, 1)>>

RECURSIVE OnSignals(_, _, _)
\* on_signal for each signal of a list, in order
OnSignals(slot, c, signals) ==
    IF signals = <<>> THEN c
    ELSE OnSignals(slot, OnSignal(slot, c, Head(signals)), Tail(signals))

\* Controller::process_signals of the controller behind a slot: the
\* controller and the entity afterwards
ProcessSignals(slot, c, target) ==
    CASE slot = "camera" ->
            Let(CameraControllerProcessSignals(c, target), LAMBDA r : [ctl |-> r.ctl, target |-> r.target])
      [] slot = "flashlight" -> FlashlightControllerProcessSignals(c, target)
      [] slot = "program" -> ProgramControllerProcessSignals(c, target)
      [] slot = "screen" -> ScreenControllerProcessSignals(c, target)
      [] slot = "scene" -> SceneControllerProcessSignals(c, target)
      [] slot = "rt" -> RTControllerProcessSignals(c, target)

\* the signals of one update: the controller receives them, then processes
SignalsThenProcess(slot, signals) ==
    ProcessSignals(slot, OnSignals(slot, HubController(slot), signals), HubTarget(slot))

\* a list with x put in after its first n elements
InsertAt(list, n, x) == SubSeq(list, 1, n) \o <<x>> \o SubSeq(list, n + 1, Len(list))

\* a controller, the signals of an update, and one more signal put among them
HubInit ==
    \E slot \in {Slots[i] : i \in 1..Len(Slots)}, n \in 0..MaxSignals :
        \E signals \in [1..n -> HubSignals], extra \in HubSignals, at \in 0..n :
            fcall = [op |-> "emit", slot |-> slot, signals |-> signals, extra |-> extra, at |-> at]

\* the update with and without the extra signal
HubDeliver ==
    /\ UNCHANGED NotCall
    /\ fcall.op = "emit"
    /\ fcall' = [fcall EXCEPT !.op = "process_signals"] @@
                 [without |-> SignalsThenProcess(fcall.slot, fcall.signals),
                  with |-> SignalsThenProcess(fcall.slot, InsertAt(fcall.signals, fcall.at, fcall.extra))]

HubNext == HubDeliver

-----------------------------------------------------------------------------
(* SignalHandler::wait_event on its own: one poll of pending events *)

\* the events a poll may return
PollAlphabet ==
    {[type |-> "Quit"],
     [type |-> "Keyboard", keycode |-> "W", is_pressed |-> TRUE],
     [type |-> "Keyboard", keycode |-> "W", is_pressed |-> FALSE],
     [type |-> "Keyboard", keycode |-> "S", is_pressed |-> TRUE],
     [type |-> "MouseMotion", x_delta |-> 3, y_delta |-> -2],
     [type |-> "MouseWheel", y_delta |-> 1],
     [type |-> "Window"]}

\* the events are pending
PollInit ==
    \E events \in EventSeqs(PollAlphabet, MaxPoll) :
        fcall = [op |-> "pending", events |-> events, keys |-> <<>>, emitted |-> <<>>]

\* wait_event: the signals it emits, new_keys_state iterated in the order keys
PollWaitEvent ==
    /\ UNCHANGED NotCall
    /\ fcall.op = "pending"
    /\ \E keys \in IterationOrders(KeyCodes(fcall.events)) :
          \E h \in {WaitEvent([ctl |-> ControllerHubInit(<<>>), emitted |-> <<>>, log |-> <<>>], fcall.events, keys)} :
             fcall' = [fcall EXCEPT !.op = "wait_event", !.keys = keys, !.emitted = h.emitted]

PollNext == PollWaitEvent

-----------------------------------------------------------------------------
(* The camera controller over the ticks of ControllerHub::update *)

\* elapsed milliseconds between two iterations of main's loop
MoveCycleTimes == {16, 20}

\* the key signals one poll may bring the camera controller
MoveSignals ==
    {KeyPressed("D"), KeyReleased("D"), KeyPressed("A"), KeyReleased("A"),
     KeyPressed("W")}

\* the keys held after a signal, a key being held from its KeyPressed until
\* its KeyReleased
HeldAfter(held, signal) ==
    CASE signal.type = "KeyPressed" -> held \cup {signal.key}
      [] signal.type = "KeyReleased" -> held \ {signal.key}
      [] OTHER -> held

\* main before the loop: the controller and the camera as constructed
MoveInit ==
    fcall = [op |-> "new", ctl |-> CameraControllerNew,
             camera |-> CameraNew(<<0, 0, -2 * FScale>>), held |-> {},
             delta_mov |-> <<0, 0, 0>>, ticks |-> 0]

\* ControllerHub::update as the camera controller sees it: set_speeds, the
\* signals of the poll queued by on_signal, process_signals
MoveUpdate ==
    /\ UNCHANGED NotCall
    /\ fcall.ticks < MaxTicks
    /\ \E cycle_time \in MoveCycleTimes, signals \in EventSeqs(MoveSignals, 1) :
          \E queued \in {OnSignals("camera", CameraControllerSetSpeeds(fcall.ctl, cycle_time), signals)} :
          \E r \in {CameraControllerProcessSignals(queued, fcall.camera)} :
             fcall' = [op |-> "process_signals", ctl |-> r.ctl, camera |-> r.target,
                       held |-> IF signals = <<>> THEN fcall.held ELSE HeldAfter(fcall.held, signals[1]),
                       delta_mov |-> VSub(r.ctl.positive_delta_mov, r.ctl.negative_delta_mov),
                       ticks |-> fcall.ticks + 1]

MoveNext == MoveUpdate

-----------------------------------------------------------------------------
(* The screen controller over the ticks of ControllerHub::update *)

\* the signals one poll may bring the screen controller
GammaSignals ==
    {KeyPressed("EQUALS"), KeyPressed("MINUS"), KeyPressed("E"),
     KeyReleased("EQUALS"), MouseScrolled(1)}

\* main before the loop: the controller and the screen's params as constructed
GammaInit ==
    fcall = [op |-> "new", ctl |-> ScreenControllerNew, scr |-> ScreenParametersNew,
             before |-> ScreenControllerNew, signals |-> <<>>, ticks |-> 0]

\* ControllerHub::update as the screen controller sees it: the signals of the
\* poll handled by on_signal, then process_signals
GammaUpdate ==
    /\ UNCHANGED NotCall
    /\ fcall.ticks < MaxTicks
    /\ \E signals \in EventSeqs(GammaSignals, MaxSignals) :
          \E r \in {ScreenControllerProcessSignals(OnSignals("screen", fcall.ctl, signals), fcall.scr)} :
             fcall' = [op |-> "process_signals", ctl |-> r.ctl, scr |-> r.target,
                       before |-> fcall.ctl, signals |-> signals,
                       ticks |-> fcall.ticks + 1]

GammaNext == GammaUpdate

-----------------------------------------------------------------------------
(* The RTController over the ticks of ControllerHub::update *)

\* init_random_transforms and add_rts: two transforms with drawn rates
TickInit ==
    \E rates \in [1..2 -> (0..MaxRate) \X (0..MaxRate)] :
        \E transforms \in {[i \in 1..2 |-> RandomTransformContinuous(rates[i][1], rates[i][2])]} :
            fcall = [op |-> "add_rts", ctl |-> RTControllerAddRts(RTControllerNew, transforms),
                     rts |-> transforms, n |-> 0]

\* one process_signals call of the RTController
TickProcess ==
    /\ UNCHANGED NotCall
    /\ fcall.n < MaxCalls
    /\ \E r \in {RTControllerProcessSignals(fcall.ctl, fcall.rts)} :
          fcall' = [op |-> "process_signals", ctl |-> r.ctl, rts |-> r.target, n |-> fcall.n + 1]

TickNext == TickProcess

-----------------------------------------------------------------------------
(* The Rc and RefCell operations of ControllerHub::update.  A cell is the    *)
(* RefCell of a controller, by slot, or the one of the SignalHandler; m is   *)
(* the borrow flag and the strong count of every cell.                       *)

\* the RefCells of ControllerHub
Cells == {Slots[i] : i \in 1..Len(Slots)} \cup {"handler"}

\* one operation on a cell
RefOp(name, cell) == [op |-> name, cell |-> cell]

\* ControllerHub::init: nothing is borrowed, and each Rc is held once, by its
\* field of the hub (the slots of the handler are Weak)
RefInit == [mutable |-> [c \in Cells |-> FALSE], shared |-> [c \in Cells |-> 0],
            strong |-> [c \in Cells |-> 1], panicked |-> FALSE]

\* RefCell::borrow_mut, RefCell::borrow, the drop of RefMut and Ref,
\* Weak::upgrade().unwrap() and the drop of an Rc
RefStep(m, o) ==
    CASE o.op = "borrow_mut" ->
            IF m.mutable[o.cell] \/ m.shared[o.cell] > 0
            THEN [m EXCEPT !.panicked = TRUE]
            ELSE [m EXCEPT !.mutable[o.cell] = TRUE]
      [] o.op = "borrow" ->
            IF m.mutable[o.cell]
            THEN [m EXCEPT !.panicked = TRUE]
            ELSE [m EXCEPT !.shared[o.cell] = @ + 1]
      [] o.op = "drop_ref_mut" -> [m EXCEPT !.mutable[o.cell] = FALSE]
      [] o.op = "drop_ref" -> [m EXCEPT !.shared[o.cell] = @ - 1]
      [] o.op = "upgrade" ->
            IF m.strong[o.cell] = 0
            THEN [m EXCEPT !.panicked = TRUE]
            ELSE [m EXCEPT !.strong[o.cell] = @ + 1]
      [] o.op = "drop_rc" -> [m EXCEPT !.strong[o.cell] = @ - 1]
      [] OTHER -> m

\* an emit whose RefMut outlives the statement
EmitBorrowsHeld(signal_value) ==
    Concat([i \in 1..Len(Slots) |->
        <<RefOp("upgrade", Slots[i]), RefOp("borrow_mut", Slots[i]),
          RefOp("on_signal", Slots[i]), RefOp("drop_rc", Slots[i])>>])

\* SignalHandler::emit: per slot, the temporaries of the statement
\* (*slot.upgrade().unwrap()).borrow_mut().on_signal(signal_value), dropped at
\* its end in reverse order
EmitBorrows(signal_value) ==
    Concat([i \in 1..Len(Slots) |->
        <<RefOp("upgrade", Slots[i]), RefOp("borrow_mut", Slots[i]),
          RefOp("on_signal", Slots[i]), RefOp("drop_ref_mut", Slots[i]),
          RefOp("drop_rc", Slots[i])>>])

\* (*self.handler).borrow_mut().wait_event() with the signals the poll emits
WaitEventBorrows(signals) ==
    <<RefOp("borrow_mut", "handler")>>
        \o Concat([i \in 1..Len(signals) |-> EmitBorrows(signals[i])])
        \o <<RefOp("drop_ref_mut", "handler")>>

\* update_control_parameters: update(&mut (**self).borrow_mut())
UpdateControlParametersBorrows(slot) ==
    <<RefOp("borrow_mut", slot), RefOp("update", slot), RefOp("drop_ref_mut", slot)>>

\* process_signals: self_obj is borrowed at the start and dropped at the
\* return; the screen controller takes borrow(), the others borrow_mut()
ProcessSignalsBorrows(slot) ==
    IF slot = "screen"
    THEN <<RefOp("borrow", slot), RefOp("process_signals", slot), RefOp("drop_ref", slot)>>
    ELSE <<RefOp("borrow_mut", slot), RefOp("process_signals", slot), RefOp("drop_ref_mut", slot)>>

\* ControllerHub::update
UpdateBorrows(signals) ==
    UpdateControlParametersBorrows("camera")
        \o WaitEventBorrows(signals)
        \o Concat([i \in 1..Len(Slots) |-> ProcessSignalsBorrows(Slots[i])])

\* the signals a poll emits
BorrowSignals == {Quit, KeyPressed("F")}

\* main before the loop, after ControllerHub::init
BorrowInit ==
    fcall = [op |-> "init", m |-> RefInit, todo |-> <<>>, last |-> RefOp("init", "handler"), ticks |-> 0]

\* control_hub.update is called: its operations are ahead
BorrowUpdate ==
    /\ UNCHANGED NotCall
    /\ fcall.todo = <<>>
    /\ ~fcall.m.panicked
    /\ fcall.ticks < MaxTicks
    /\ \E signals \in EventSeqs(BorrowSignals, MaxSignals) :
          fcall' = [fcall EXCEPT !.op = "update", !.todo = UpdateBorrows(signals),
                                 !.ticks = @ + 1]

\* the next operation of the update; a panic ends the program
BorrowStep ==
    /\ UNCHANGED NotCall
    /\ fcall.todo # <<>>
    /\ ~fcall.m.panicked
    /\ fcall' = [fcall EXCEPT !.op = "step", !.m = RefStep(fcall.m, Head(fcall.todo)),
                              !.last = Head(fcall.todo), !.todo = Tail(@)]

BorrowNext == BorrowUpdate \/ BorrowStep

-----------------------------------------------------------------------------
(* Specifications: each part of the program on its own, the other parts idle *)

CamIdle ==
    /\ cam = NoCamera
    /\ camOps = 0
    /\ yawFree = 0
    /\ inverted = NoCamera
    /\ inverted2 = NoCamera

ObjIdle ==
    /\ obj = NoValue
    /\ objOps = 0
    /\ lastOp = NoValue
    /\ countBefore = 0
    /\ offsetSum = <<0, 0, 0>>
    /\ drawCall = -1
    /\ gotNormal = NoValue

LoopIdle ==
    /\ pc = "idle"
    /\ iter = 0
    /\ program_loop = NoValue
    /\ control_hub = NoValue
    /\ main_camera = NoCamera
    /\ lighting = NoValue
    /\ screen = NoValue
    /\ scene_params = NoValue
    /\ rts = <<>>
    /\ scene = NoValue
    /\ mirrored_scene = NoValue
    /\ frame = <<>>
    /\ swaps = 0
    /\ tick = NoValue
    /\ quitDispatched = FALSE
    /\ flashHist = <<>>

CallIdle == fcall = NoValue

RenderIdle ==
    /\ rpc = "idle"
    /\ gl = NoValue
    /\ TEX_COUNT = 0
    /\ screens = <<>>
    /\ fb_status = <<>>
    /\ world = NoValue
    /\ calls = <<>>
    /\ frames = 0

CamSpecInit == CamInit /\ ObjIdle /\ LoopIdle /\ CallIdle /\ RenderIdle

ObjSpecInit == ObjInit /\ CamIdle /\ LoopIdle /\ CallIdle /\ RenderIdle

LoopSpecInit == LoopInit /\ CamIdle /\ ObjIdle /\ CallIdle /\ RenderIdle

\* the state of a specification of one function call, made by its Init
CallSpecInit == CamIdle /\ ObjIdle /\ LoopIdle /\ RenderIdle

CamSpec == CamSpecInit /\ [][CamNext]_vars

ObjSpec == ObjSpecInit /\ [][ObjNext]_vars

\* the run loop
Spec == LoopSpecInit /\ [][LoopNext]_vars

\* the events one poll may return where the end of the loop is examined
QuitEvents ==
    {[type |-> "Quit"],
     [type |-> "Keyboard", keycode |-> "F", is_pressed |-> TRUE],
     [type |-> "MouseMotion", x_delta |-> 3, y_delta |-> -2],
     [type |-> "Window"]}

QuitUpdate == Update(QuitEvents)

\* the steps main takes by itself; at the poll it takes one of them
\* (LoopSkipUpdate) or LoopUpdate
LoopRuns ==
    \/ LoopEnter
    \/ LoopExit
    \/ LoopSkipUpdate
    \/ LoopStamp
    \/ LoopPrepare
    \/ LoopDrawMain
    \/ LoopDrawMirrored
    \/ LoopDrawOnAnother
    \/ LoopDrawOnScreen
    \/ LoopSwap

QuitNext == LoopRuns \/ QuitUpdate

\* the run loop over the events that matter to its end, where main does not
\* stop while it has a step to take
FairSpec == LoopSpecInit /\ [][QuitNext]_vars /\ WF_vars(LoopRuns)

\* the sort of draw_objects on its own
SortSpecInit == SortInit /\ CallSpecInit

SortSpec == SortSpecInit /\ [][SortNext]_vars

SpotlightSpecInit == SpotlightInit /\ CallSpecInit

SpotlightSpec == SpotlightSpecInit /\ [][SpotlightNext]_vars

WalkSpecInit == WalkInit /\ CallSpecInit

WalkSpec == WalkSpecInit /\ [][WalkNext]_vars

CubeSpecInit == CubeInit /\ CallSpecInit

CubeSpec == CubeSpecInit /\ [][CubeNext]_vars

\* start up and the draws of the frames
RenderSpecInit == RenderInit /\ CamIdle /\ ObjIdle /\ LoopIdle /\ CallIdle

RenderSpec == RenderSpecInit /\ [][RenderNext]_vars

\* one controller and the signals of one update
HubSpecInit == HubInit /\ CallSpecInit

HubSpec == HubSpecInit /\ [][HubNext]_vars

PollSpecInit == PollInit /\ CallSpecInit

PollSpec == PollSpecInit /\ [][PollNext]_vars

MoveSpecInit == MoveInit /\ CallSpecInit

MoveSpec == MoveSpecInit /\ [][MoveNext]_vars

GammaSpecInit == GammaInit /\ CallSpecInit

GammaSpec == GammaSpecInit /\ [][GammaNext]_vars

TickSpecInit == TickInit /\ CallSpecInit

TickSpec == TickSpecInit /\ [][TickNext]_vars

BorrowSpecInit == BorrowInit /\ CallSpecInit

BorrowSpec == BorrowSpecInit /\ [][BorrowNext]_vars

-----------------------------------------------------------------------------
(* Claims about the camera *)

PitchLow == -HalfPiU + ANGLE_LOWER_BOUND

PitchHigh == HalfPiU - ANGLE_LOWER_BOUND

Cross(a, b) ==
    <<a[2] * b[3] - a[3] * b[2], a[3] * b[1] - a[1] * b[3], a[1] * b[2] - a[2] * b[1]>>

Dot(a, b) == a[1] * b[1] + a[2] * b[2] + a[3] * b[3]

NormInf(a) == Max2(Abs(a[1]), Max2(Abs(a[2]), Abs(a[3])))

\* a and b point the same way: positive dot product, cross product within tolerance
SameDirection(a, b) ==
    LET c == Cross(a, b)
        lim == DirTol * ((NormInf(a) * NormInf(b)) \div FScale)
    IN  /\ Dot(a, b) > 0
        /\ \A i \in 1..3 : Abs(c[i]) <= lim

C10_InvertTwice ==
    inverted2 # NoCamera =>
        /\ Abs(inverted2.pitch - cam.pitch) <= AngleTol
        /\ Abs(inverted2.yaw - (cam.yaw + TwoPiU)) <= AngleTol
        /\ SameDirection(inverted2.direction, cam.direction)
        /\ inverted2.pos = cam.pos

-----------------------------------------------------------------------------
(* Claims about SceneObject and Spatial *)

\* C5 as stated: at every draw the instanced draw call requests instances.len()
\* instances and the instance buffer, as last uploaded, holds exactly those
\* records, in order, with their current contents.
C5_DrawUploadsAll ==
    lastOp.op = "draw" =>
        /\ drawCall = Len(obj.instances)
        /\ obj.ibo = obj.instances

\* C6: a SceneObject starts with one instance, add_instance adds one and
\* add_instances(k) adds k to get_instances(), and the count is never below one.
C6_InstanceCount ==
    /\ SceneObjectGetInstances(obj) >= 1
    /\ lastOp.op = "from" => SceneObjectGetInstances(obj) = 1
    /\ lastOp.op = "add_instance" => SceneObjectGetInstances(obj) = countBefore + 1
    /\ lastOp.op = "add_instances" =>
           SceneObjectGetInstances(obj) = countBefore + lastOp.arg

\* C6 witness: add_instances(2) was just called on an object that already had
\* more than its first instance
C6_Witness ==
    /\ lastOp.op = "add_instances"
    /\ lastOp.arg = 2
    /\ countBefore >= 2
    /\ SceneObjectGetInstances(obj) = countBefore + 2

\* C7 as stated: the matrix get_normal returns is the inverse-transpose of the
\* upper-left 3x3 block of the model matrix at the time of the call, for a
\* SceneObject and for an Instance.
C7_NormalCurrent ==
    gotNormal # NoValue =>
        Mat3Equal(gotNormal.value, InverseTransposeMat3(gotNormal.model))

\* C9: the translation column of a model matrix built from the identity by
\* translate, scale and rotate calls is the sum of the translate offsets.
C9_TranslationColumn ==
    Column3(obj.model) = <<offsetSum[1], offsetSum[2], offsetSum[3], 1>>

\* C9 witness: a rotate just ran on a model that was scaled and translated before
C9_Witness ==
    /\ lastOp.op = "rotate"
    /\ offsetSum # <<0, 0, 0>>
    /\ Det4(obj.model) > 1
    /\ Column3(obj.model) = <<offsetSum[1], offsetSum[2], offsetSum[3], 1>>

-----------------------------------------------------------------------------
(* Claims about the run loop and the signal hub *)

\* a signal is among those handed to emit
Emitted(signals, signal) == \E i \in 1..Len(signals) : signals[i] = signal

\* the draw calls and the swap that end an iteration
RenderCalls ==
    <<<<"screen", "draw_on_framebuffer", "scene">>,
      <<"mirrored_screen", "draw_on_framebuffer", "mirrored_scene">>,
      <<"mirrored_screen", "draw_on_another", "screen">>,
      <<"screen", "draw_on_screen">>,
      <<"win", "swap_window">>>>

\* the frame record ends with the draw calls and the swap
Rendered ==
    /\ Len(frame) >= Len(RenderCalls)
    /\ SubSeq(frame, Len(frame) - Len(RenderCalls) + 1, Len(frame)) = RenderCalls

\* Claim C1: once a Quit signal has been dispatched in an update, loop_active
\* is false when the update returns; no further iteration starts; at the next
\* evaluation of the loop condition the loop exits; and it does exit, with
\* every started iteration rendered and swapped.
C1_QuitExits ==
    /\ [](tick # NoValue /\ Emitted(tick.emitted, Quit)
            => ~program_loop.loop_active)
    /\ [][quitDispatched => iter' = iter]_vars
    /\ [][quitDispatched /\ pc = "loop_check" => pc' = "done"]_vars
    /\ [](pc = "done" => swaps = iter /\ Rendered)
    /\ (quitDispatched ~> pc = "done")

C1_Witness ==
    /\ pc = "done"
    /\ quitDispatched
    /\ swaps = iter
    /\ iter < MaxIter

\* the on_signal calls that deliver each signal to every slot, signal by
\* signal, slots in connection order
Deliveries(signals) ==
    [k \in 1..(Len(signals) * Len(Slots)) |->
        <<"on_signal", Slots[((k - 1) % Len(Slots)) + 1],
          signals[((k - 1) \div Len(Slots)) + 1]>>]

\* a controller after it alone has handled the signals
RECURSIVE Received(_, _, _)
Received(slot, c, signals) ==
    IF signals = <<>> THEN c
    ELSE Received(slot, OnSignal(slot, c, Head(signals)), Tail(signals))

\* Claim C2: in every update the calls made on the controllers are exactly:
\* each emitted signal delivered once to each of the six slots in connection
\* order, signal after signal, and after all of them the six process_signals
\* calls; and after the deliveries each controller is what its own handler
\* makes of its own previous state and the signals.
C2_DeliveredInOrder ==
    tick # NoValue =>
        /\ tick.log = Deliveries(tick.emitted) \o ProcessEntries
        /\ \A i \in 1..Len(Slots) :
              tick.waited[Slots[i]] =
                  Received(Slots[i], tick.polled[Slots[i]], tick.emitted)

C2_Witness ==
    /\ tick # NoValue
    /\ Len(tick.emitted) >= 2
    /\ tick.emitted[1] # tick.emitted[2]

\* Claim C3: after process_signals of the camera controller the handlers have
\* been called with the queued signals, each once, in arrival order; delta_rot
\* and delta_zoom are zero and signal_list is empty; and the flashlight
\* controller's on flag is what it was before process_signals, and what it
\* was before the update unless the update dispatched a press of F.
C3_AccumulatorsReset ==
    tick # NoValue =>
        /\ tick.applied = tick.waited.camera.signal_list
        /\ tick.applied = tick.emitted
        /\ control_hub.camera.delta_rot = <<0, 0, 0>>
        /\ control_hub.camera.delta_zoom = 0
        /\ control_hub.camera.signal_list = <<>>
        /\ control_hub.flashlight.on = tick.waited.flashlight.on
        /\ (~Emitted(tick.emitted, KeyPressed("F"))
              => control_hub.flashlight.on = tick.polled.flashlight.on)

C3_Witness ==
    /\ tick # NoValue
    /\ Len(tick.applied) >= 2
    /\ \E i \in 1..Len(tick.applied) : tick.applied[i].type = "MouseMoved"
    /\ \E i \in 1..Len(tick.applied) : tick.applied[i].type = "MouseScrolled"
    /\ control_hub.flashlight.on

\* Claim C4: after the second of two updates that each dispatched a press of
\* F, the spotlight's on flag is what it was before the first of them.
C4_ToggleTwice ==
    (/\ tick # NoValue
     /\ Emitted(tick.emitted, KeyPressed("F"))
     /\ Len(flashHist) = 2)
        => lighting.spot.on = flashHist[1]

-----------------------------------------------------------------------------
(* Claims about functions on their own *)

\* Claim C11: after the sort of draw_objects the objects are in back-to-front
\* order, the distance to the camera never growing along the list, and the
\* sorted list is a permutation of the input.
C11_BackToFront ==
    fcall.op = "sort_by" =>
        /\ \A i, j \in 1..Len(fcall.sorted) :
              i < j => CameraDistance(fcall.camera_pos, fcall.sorted[i])
                          >= CameraDistance(fcall.camera_pos, fcall.sorted[j])
        /\ Len(fcall.sorted) = Len(fcall.objects)
        /\ \E order \in IterationOrders(1..Len(fcall.objects)) :
              fcall.sorted = [i \in 1..Len(fcall.objects) |-> fcall.objects[order[i]]]

C11_Witness ==
    /\ fcall.op = "sort_by"
    /\ Len(fcall.sorted) >= 3
    /\ fcall.sorted # fcall.objects
    /\ \E i \in 1..Len(fcall.sorted) :
          CameraDistance(fcall.camera_pos, fcall.sorted[i])
              > CameraDistance(fcall.camera_pos, fcall.sorted[Len(fcall.sorted)])

\* C12: a spotlight that is switched off hands the zero vector to the
\* ambient, diffuse and specular uniforms of set_spotlight, whatever its
\* colours are.
C12_OffIsDark ==
    (fcall.op = "set_spotlight" /\ ~fcall.light.on) =>
        /\ fcall.uniforms.ambient = <<0, 0, 0>>
        /\ fcall.uniforms.diffuse = <<0, 0, 0>>
        /\ fcall.uniforms.specular = <<0, 0, 0>>
        /\ SpotlightGetAmb(fcall.light) = <<0, 0, 0>>
        /\ SpotlightGetDiff(fcall.light) = <<0, 0, 0>>
        /\ SpotlightGetSpec(fcall.light) = <<0, 0, 0>>

C12_Witness ==
    /\ fcall.op = "set_spotlight"
    /\ ~fcall.light.on
    /\ fcall.light.amb = <<-FScale, 2 * FScale, 3>>
    /\ fcall.light.diff = <<5000, 5000, 5000>>
    /\ fcall.light.spec = <<1000, 1000, 1000>>

\* the case of C13: translate_forward(1.0) has run on Camera::new(0, 0, -2)
C13_Case ==
    /\ fcall.op = "translate_forward"
    /\ fcall.before.pos = <<0, 0, -2 * FScale>>
    /\ fcall.offset = FScale

\* C13 (as stated): for a camera constructed at (0, 0, -2), one
\* translate_forward(1.0) increases the z component of the position by about
\* 1.0 and leaves x and y unchanged.
C13_ForwardIncreasesZ ==
    C13_Case =>
        /\ Abs(fcall.camera.pos[3] - (fcall.before.pos[3] + FScale)) <= DirTol
        /\ fcall.camera.pos[1] = fcall.before.pos[1]
        /\ fcall.camera.pos[2] = fcall.before.pos[2]

\* C13 (amended): for a camera constructed at (0, 0, -2), whose yaw is a
\* quarter turn, one translate_forward(1.0) decreases the z component of the
\* position by about 1.0 and leaves x and y unchanged.
C13_ForwardDecreasesZ ==
    C13_Case =>
        /\ Abs(fcall.before.yaw - HalfPiU) <= AngleTol
        /\ Abs(fcall.camera.pos[3] - (fcall.before.pos[3] - FScale)) <= DirTol
        /\ fcall.camera.pos[1] = fcall.before.pos[1]
        /\ fcall.camera.pos[2] = fcall.before.pos[2]

C13_Witness == C13_Case /\ fcall.camera.pos[3] < fcall.before.pos[3]

\* C14: BasicMesh::cube(1.0) has exactly 24 vertices and 36 indices, and
\* every vertex normal it stores has unit length and a positive dot product
\* with the vertex position.
C14_CubeNormalsUnit ==
    (fcall.op = "cube" /\ fcall.side = FScale) =>
        /\ Len(fcall.mesh.vertices) = 24
        /\ Len(fcall.mesh.indices) = 36
        /\ \A i \in 1..Len(fcall.mesh.vertices) :
              /\ Abs(Length(fcall.mesh.vertices[i].normal) - FScale) <= DirTol
              /\ Dot(fcall.mesh.vertices[i].normal, fcall.mesh.vertices[i].pos) > 0

-----------------------------------------------------------------------------
(* Claims about start up and the draws of a frame *)

\* the positions in `calls` of the calls named `name`
CallsNamed(name) == {i \in 1..Len(calls) : calls[i].cmd.cmd = name}

\* the positions in `calls` of the draws of a pass
DrawsOf(pass) == {i \in CallsNamed("draw") : calls[i].cmd.a = pass}

\* `calls` holds the calls of a whole draw_on_framebuffer
FramebufferDrawn == rpc \in {"mirror", "draw_on_another"}

\* the screen and the scene of the draw_on_framebuffer held in `calls`
DrawnScreen == IF rpc = "mirror" THEN screens[1] ELSE screens[2]

\* C15: when the status after the attachments is not the complete one, setup
\* panics: Screen::new never returns, and nothing is ever drawn into, or
\* composed from, an incomplete framebuffer.
C15_IncompleteNeverDrawn ==
    /\ (\E i \in 1..Len(fb_status) : fb_status[i] # "GL_FRAMEBUFFER_COMPLETE") =>
          /\ rpc = "panicked"
          /\ Len(screens) < 2
          /\ frames = 0
          /\ CallsNamed("draw") = {}
          /\ CallsNamed("reset_tex_count") = {}
    /\ \A k \in 1..Len(screens) :
          /\ screens[k].fbo.status = "GL_FRAMEBUFFER_COMPLETE"
          /\ screens[k].sfbo.status = "GL_FRAMEBUFFER_COMPLETE"
    /\ rpc \notin {"app_init", "screen_new", "panicked"} => Len(screens) = 2

C15_Witness ==
    /\ rpc = "panicked"
    /\ Len(screens) = 1
    /\ fb_status = <<"GL_FRAMEBUFFER_COMPLETE", "GL_FRAMEBUFFER_COMPLETE", "GL_FRAMEBUFFER_COMPLETE", "GL_FRAMEBUFFER_UNSUPPORTED">>

\* the positions in `calls` where the framebuffer `id` is bound
BindsOf(id) == {i \in CallsNamed("glBindFramebuffer") : calls[i].cmd.a = id}

\* the positions in `calls` of the draws of compose
ComposeDraws == DrawsOf("skybox") \cup DrawsOf("opaque") \cup DrawsOf("normals") \cup DrawsOf("outline")

\* C17: every draw_on_framebuffer first resets the texture-unit counter, then
\* draws the shadow map of every object into the shadow framebuffer, then
\* binds the offscreen framebuffer, clears it and composes: the shadow map is
\* complete before the first opaque draw and the skybox is drawn before any
\* opaque object.
C17_ShadowsThenCompose ==
    FramebufferDrawn =>
        /\ calls[1].cmd.cmd = "reset_tex_count"
        /\ Cardinality(DrawsOf("shadow")) = Len(world.objects_list)
        /\ Cardinality(BindsOf(DrawnScreen.fbo.id)) = 1
        /\ \A b \in BindsOf(DrawnScreen.fbo.id) :
              /\ \A s \in DrawsOf("shadow") :
                    /\ 1 < s /\ s < b
                    /\ calls[s].gl.framebuffer = DrawnScreen.sfbo.id
              /\ \E m \in CallsNamed("set_texture") :
                    /\ calls[m].cmd.b = <<"dirLight", "shadow_map">>
                    /\ m < b
                    /\ \A s \in DrawsOf("shadow") : s < m
              /\ \E c \in CallsNamed("glClear") :
                    /\ b < c
                    /\ calls[c].gl.framebuffer = DrawnScreen.fbo.id
                    /\ \A d \in ComposeDraws : c < d
              /\ \A d \in ComposeDraws : b < d /\ calls[d].gl.framebuffer = DrawnScreen.fbo.id
        /\ DrawsOf("skybox") # {}
        /\ \A k \in DrawsOf("skybox"), o \in DrawsOf("opaque") : k < o

C17_Witness ==
    /\ rpc = "draw_on_another"
    /\ frames = 1
    /\ Len(world.objects_list) = MaxObjects
    /\ Cardinality(DrawsOf("shadow")) = MaxObjects
    /\ Cardinality(DrawsOf("opaque")) = MaxObjects

\* the first opaque draw after position p, or the end of `calls`
NextOpaque(p) ==
    LET later == {x \in DrawsOf("opaque") : x > p}
    IN  IF later = {} THEN Len(calls) + 1 ELSE CHOOSE x \in later : \A y \in later : x <= y

\* the outline draws of the object drawn at p, made before the next opaque draw
OwnOutlines(p) ==
    {u \in DrawsOf("outline") : calls[u].cmd.b = calls[p].cmd.b /\ p < u /\ u < NextOpaque(p)}

\* C18: in draw_objects the outline of an outlined object is drawn right after
\* the opaque draw of that object (and its normals when they are shown) and
\* before the opaque draw of the next object; an object without outline gets
\* no outline draw.
C18_OutlineFollowsObject ==
    FramebufferDrawn =>
        /\ \A p \in DrawsOf("opaque") :
              IF HasOutline(world.objects_list[calls[p].cmd.b])
              THEN /\ Cardinality(OwnOutlines(p)) = 1
                   /\ \A u \in OwnOutlines(p), d \in CallsNamed("draw") :
                         (p < d /\ d < u) =>
                             /\ world.params.visualize_normals
                             /\ calls[d].cmd.a = "normals"
                             /\ calls[d].cmd.b = calls[p].cmd.b
              ELSE \A u \in DrawsOf("outline") : calls[u].cmd.b # calls[p].cmd.b
        /\ \A u \in DrawsOf("outline") : \E p \in DrawsOf("opaque") : u \in OwnOutlines(p)
        /\ Cardinality(DrawsOf("opaque")) = Len(world.objects_list)

C18_Witness ==
    /\ rpc = "mirror"
    /\ Len(world.objects_list) = 3
    /\ HasOutline(world.objects_list[1])
    /\ ~HasOutline(world.objects_list[2])
    /\ HasOutline(world.objects_list[3])
    /\ world.params.visualize_normals
    /\ Cardinality(DrawsOf("outline")) = 2

\* C19: in every frame, the first included, the opaque draw of an outlined
\* object meets the stencil state that writes 1 (test on, ALWAYS, reference 1,
\* masks 0xFF, REPLACE on pass), and the outline draw meets stencil writes
\* off and the test NOTEQUAL 1.
C19_StencilMarksOutlined ==
    FramebufferDrawn =>
        /\ \A p \in DrawsOf("opaque") :
              HasOutline(world.objects_list[calls[p].cmd.b]) =>
                  /\ calls[p].gl.stencil_test
                  /\ calls[p].gl.stencil_func = <<"GL_ALWAYS", 1, 255>>
                  /\ calls[p].gl.stencil_mask = 255
                  /\ calls[p].gl.stencil_op[3] = "GL_REPLACE"
        /\ \A u \in DrawsOf("outline") :
              /\ calls[u].gl.stencil_test
              /\ calls[u].gl.stencil_mask = 0
              /\ calls[u].gl.stencil_func = <<"GL_NOTEQUAL", 1, 255>>

\* C20: within one draw_on_framebuffer the texture-unit counter is reset once,
\* at the start, and every binding of a texture to a uniform takes the current
\* count as its unit and increments it: no two bindings share a unit.
C20_UnitsDistinct ==
    FramebufferDrawn =>
        /\ CallsNamed("reset_tex_count") = {1}
        /\ \A i \in CallsNamed("set_texture") :
              calls[i].unit = Cardinality({j \in CallsNamed("set_texture") : j < i})
        /\ \A i \in CallsNamed("set_texture"), j \in CallsNamed("set_texture") :
              i # j => calls[i].unit # calls[j].unit
        /\ TEX_COUNT = Cardinality(CallsNamed("set_texture"))

C20_Witness ==
    /\ rpc = "draw_on_another"
    /\ Len(world.objects_list) = 2
    /\ HasOutline(world.objects_list[2])
    /\ world.params.visualize_normals
    /\ \E i \in CallsNamed("set_texture") : calls[i].cmd.b = <<"diffuseTextures", 1>> /\ calls[i].unit > 2
    /\ TEX_COUNT >= 10

-----------------------------------------------------------------------------
(* Claims about the controllers *)

\* C16: a signal a controller does not handle (a key that is not one of its
\* keys, or a kind of signal it has no arm for) leaves the controller's
\* parameters and, after process_signals, the controlled entity as they are
\* without that signal.
C16_UnhandledIgnored ==
    (fcall.op = "process_signals" /\ ~Handled(fcall.slot, fcall.extra)) =>
        /\ fcall.with.ctl = fcall.without.ctl
        /\ fcall.with.target = fcall.without.target

C16_Witness ==
    /\ fcall.op = "process_signals"
    /\ fcall.slot = "camera"
    /\ fcall.signals = <<KeyPressed("W"), MouseMoved(3, -2)>>
    /\ fcall.extra = KeyReleased("Q")
    /\ fcall.at = 1
    /\ fcall.with.target.pos # CameraNew(<<0, 0, -2 * FScale>>).pos

-----------------------------------------------------------------------------
(* Claims about the frame of the run loop *)

\* the draw calls and the swap of one iteration of main's while loop
FrameDraws ==
    << <<"screen", "draw_on_framebuffer", "scene">>,
       <<"mirrored_screen", "draw_on_framebuffer", "mirrored_scene">>,
       <<"mirrored_screen", "draw_on_another", "screen">>,
       <<"screen", "draw_on_screen">>,
       <<"win", "swap_window">> >>

\* the calls of an iteration in which control_hub.update ran
FrameWithUpdate == << <<"control_hub", "update">> >> \o FrameDraws

\* s is the start of t
IsPrefix(s, t) == Len(s) <= Len(t) /\ SubSeq(t, 1, Len(s)) = s

\* C21: every iteration of the loop issues the main draw_on_framebuffer, the
\* mirrored draw_on_framebuffer, the mirrored screen's draw_on_another, the
\* main draw_on_screen and the swap, in this order and each once, and the
\* update of the iteration, when it runs, comes before all of them: the calls
\* of a running iteration are a start of that sequence, those of a finished
\* iteration are all of it.
C21_DrawSequence ==
    /\ IsPrefix(frame, FrameDraws) \/ IsPrefix(frame, FrameWithUpdate)
    /\ (pc = "loop_check" /\ iter > 0) =>
           frame \in {FrameDraws, FrameWithUpdate}
    /\ pc = "swap" => Len(frame) \in {4, 5}

\* the second iteration, one in which the update ran, has finished
C21_Witness ==
    /\ pc = "loop_check"
    /\ iter = 2
    /\ frame = FrameWithUpdate
    /\ swaps = 2

\* the mirrored scene s of the current frame has the inverted camera of the
\* frame's scene and its other fields
MirrorsScene(s) ==
    /\ s.camera = CameraInvert(world.scene.camera)
    /\ s.objects = world.scene.objects
    /\ s.lighting = world.scene.lighting
    /\ s.skyboxes = world.scene.skyboxes
    /\ s.shaders = world.scene.shaders
    /\ s.params = world.scene.params

\* the step is the creation and composition of the mirrored scene
MirrorStep == rpc = "mirror" /\ rpc' = "draw_on_another"

\* C22: the scene Scene::mirrored returns has the inversion of the original
\* scene's camera and the original's objects, lighting, skyboxes, shaders and
\* parameters, also once it has been composed; creating and composing it
\* changes neither the original scene (its camera, its objects) nor main's
\* camera nor the objects_list the next frame is built from.
C22_MirroredScene ==
    /\ [](world # NoValue /\ world.mirrored_scene # NoValue =>
              /\ MirrorsScene(SceneMirrored(world.scene))
              /\ MirrorsScene(world.mirrored_scene)
              /\ world.scene.camera = world.camera)
    /\ [][MirrorStep =>
              /\ world'.mirrored_scene # NoValue
              /\ world'.scene = world.scene
              /\ world'.camera = world.camera
              /\ world'.objects_list = world.objects_list]_vars

\* a mirrored scene has been composed in a frame whose camera is pitched and
\* whose objects the main pass has reordered
C22_Witness ==
    /\ rpc = "draw_on_another"
    /\ world.mirrored_scene # NoValue
    /\ world.scene.camera.pitch # 0
    /\ Abs(world.mirrored_scene.camera.pitch + world.scene.camera.pitch) <= AngleTol
    /\ Len(world.objects_list) >= 2
    /\ world.scene.objects # world.objects_list

\* the p-th call is the first of draw_skybox
SkyboxStart(p) == calls[p].cmd.cmd = "glDisable" /\ calls[p].cmd.a = "GL_STENCIL_TEST"

\* the p-th call is the one compose makes when draw_skybox has returned
AfterSkybox(p) == calls[p].cmd.cmd = "set_view_mat" /\ calls[p].cmd.a = "look_at"

\* the p-th call reads the viewport generate_shadow_maps saves
ShadowStart(p) == calls[p].cmd.cmd = "glGetIntegerv"

\* the p-th call is the one draw_on_framebuffer makes when
\* generate_shadow_maps has returned: self.fbo.bind() after clear_binding
AfterShadow(p) ==
    /\ p > 1
    /\ calls[p - 1].cmd.cmd = "glBindFramebuffer"
    /\ calls[p - 1].cmd.a = 0
    /\ calls[p].cmd.cmd = "glBindFramebuffer"

\* C23: the skybox pass and the shadow pass restore the GL state they change:
\* the call after draw_skybox meets the stencil test and face culling enabled
\* and the depth function LESS, as the first call of draw_skybox met them; the
\* call after the shadow pass meets the cull mode BACK and the viewport that
\* generate_shadow_maps saved.
C23_PassesRestore ==
    \A p \in 1..Len(calls) :
        /\ AfterSkybox(p) =>
              /\ calls[p].gl.stencil_test
              /\ calls[p].gl.cull_face
              /\ calls[p].gl.depth_func = "GL_LESS"
              /\ \E q \in 1..(p - 1) :
                    /\ SkyboxStart(q)
                    /\ calls[q].gl.stencil_test
                    /\ calls[q].gl.cull_face
                    /\ calls[q].gl.depth_func = "GL_LESS"
        /\ AfterShadow(p) =>
              /\ calls[p].gl.cull_mode = "GL_BACK"
              /\ \E q \in 1..(p - 1) :
                    /\ ShadowStart(q)
                    /\ calls[q].gl.cull_mode = "GL_BACK"
                    /\ calls[p].gl.viewport = calls[q].gl.viewport

\* the mirrored scene of the second frame has been drawn: both passes ran, the
\* skybox was drawn without stencil test and culling under LEQUAL, the shadows
\* with front-face culling on the viewport of the shadow map
C23_Witness ==
    /\ rpc = "draw_on_another"
    /\ frames = 1
    /\ \E p \in 1..Len(calls) : AfterSkybox(p)
    /\ \E p \in 1..Len(calls) : AfterShadow(p) /\ calls[p].gl.viewport = WindowViewport
    /\ \E p \in 1..Len(calls) :
          /\ calls[p].cmd.cmd = "draw"
          /\ calls[p].cmd.a = "skybox"
          /\ ~calls[p].gl.stencil_test
          /\ ~calls[p].gl.cull_face
          /\ calls[p].gl.depth_func = "GL_LEQUAL"
    /\ \E p \in 1..Len(calls) :
          /\ calls[p].cmd.cmd = "draw"
          /\ calls[p].cmd.a = "shadow"
          /\ calls[p].gl.cull_mode = "GL_FRONT"
          /\ calls[p].gl.viewport = <<0, 0, SHADOW_RESOLUTION[1], SHADOW_RESOLUTION[2]>>

\* main is between the construction of the frame's Scene and the swap: the
\* scenes of the frame are composed here
Composing == pc \in {"draw_main", "mirror", "draw_on_another", "draw_on_screen", "swap"}

\* C24: at every scene composition of the loop the flashlight's position and
\* direction are the main camera's current position and direction (the
\* camera the Scene is built with), whether or not the update ran in the
\* iteration and whether or not it moved the camera.
C24_FlashlightFollowsCamera ==
    Composing =>
        /\ lighting.spot.pos = main_camera.pos
        /\ lighting.spot.dir = main_camera.direction
        /\ scene.camera = main_camera

\* the first frame is composed after an update that moved and turned the camera
C24_Witness ==
    /\ pc = "mirror"
    /\ iter = 1
    /\ frame[1] = <<"control_hub", "update">>
    /\ main_camera.pos # CameraNew(<<0, 0, -2 * FScale>>).pos
    /\ main_camera.direction # CameraNew(<<0, 0, -2 * FScale>>).direction
    /\ lighting.spot.pos = main_camera.pos

\* the update recorded in t dispatched the key-press signal of keycode
PressDispatched(t, keycode) == t # NoValue /\ Emitted(t.emitted, KeyPressed(keycode))

\* C25 as stated: a level-triggered flag of a target (the spotlight's on, the
\* screen's sobel_on and msaa_on, the scene's visualize_normals) changes only
\* in a tick that dispatched the key-press signal of its toggle key (F, E, M,
\* N), so it keeps its constructed value until the first such key press.
C25_FlagsChangeOnToggle ==
    [][/\ lighting'.spot.on # lighting.spot.on => PressDispatched(tick', "F")
       /\ screen'.sobel_on # screen.sobel_on => PressDispatched(tick', "E")
       /\ screen'.msaa_on # screen.msaa_on => PressDispatched(tick', "M")
       /\ scene_params'.visualize_normals # scene_params.visualize_normals =>
              PressDispatched(tick', "N")]_vars

-----------------------------------------------------------------------------
(* Claims about wait_event *)

\* a signal of a key
IsKeySignal(signal) == signal.type \in {"KeyPressed", "KeyReleased"}

\* the places of the keyboard events of keycode among the events
KeyEvents(events, keycode) ==
    {i \in 1..Len(events) : events[i].type = "Keyboard" /\ events[i].keycode = keycode}

\* the places of the signals of keycode among the signals
KeySignals(signals, keycode) ==
    {i \in 1..Len(signals) : IsKeySignal(signals[i]) /\ signals[i].key = keycode}

\* the largest number of a non-empty set
MaxOf(S) == CHOOSE x \in S : \A y \in S : y <= x

\* the signal wait_event emits at once for an event that is not of a key
SignalOf(event) ==
    CASE event.type = "Quit" -> Quit
      [] event.type = "MouseMotion" -> MouseMoved(event.y_delta, event.x_delta)
      [] event.type = "MouseWheel" -> MouseScrolled(event.y_delta)

\* the signals of the events that are emitted at once, in event order
RECURSIVE ImmediateSignals(_)
ImmediateSignals(events) ==
    IF events = <<>> THEN <<>>
    ELSE IF Head(events).type \in {"Quit", "MouseMotion", "MouseWheel"}
    THEN <<SignalOf(Head(events))>> \o ImmediateSignals(Tail(events))
    ELSE ImmediateSignals(Tail(events))

\* the signals that are not of a key, in the order emitted
RECURSIVE OtherSignals(_)
OtherSignals(signals) ==
    IF signals = <<>> THEN <<>>
    ELSE IF IsKeySignal(Head(signals)) THEN OtherSignals(Tail(signals))
    ELSE <<Head(signals)>> \o OtherSignals(Tail(signals))

\* C26: one poll coalesces the keyboard events of a key code: a key with
\* events gets exactly one signal, KeyPressed or KeyReleased as its last event
\* says, a key without events gets none; the Quit, MouseMoved and
\* MouseScrolled signals are emitted in event order, and every key signal
\* comes after all of them.
C26_KeysCoalesced ==
    fcall.op = "wait_event" =>
        /\ \A keycode \in {"W", "S"} :
              IF KeyEvents(fcall.events, keycode) = {}
              THEN KeySignals(fcall.emitted, keycode) = {}
              ELSE /\ Cardinality(KeySignals(fcall.emitted, keycode)) = 1
                   /\ \A i \in KeySignals(fcall.emitted, keycode) :
                         fcall.emitted[i] =
                             IF fcall.events[MaxOf(KeyEvents(fcall.events, keycode))].is_pressed
                             THEN KeyPressed(keycode)
                             ELSE KeyReleased(keycode)
        /\ OtherSignals(fcall.emitted) = ImmediateSignals(fcall.events)
        /\ \A i, j \in 1..Len(fcall.emitted) :
              IsKeySignal(fcall.emitted[i]) /\ ~IsKeySignal(fcall.emitted[j]) => j < i

\* a poll in which W was pressed and then released before a Quit: one
\* KeyReleased(W), after the Quit signal
C26_Witness ==
    /\ fcall.op = "wait_event"
    /\ Len(fcall.events) = 3
    /\ fcall.events[1] = [type |-> "Keyboard", keycode |-> "W", is_pressed |-> TRUE]
    /\ fcall.events[2] = [type |-> "Keyboard", keycode |-> "W", is_pressed |-> FALSE]
    /\ fcall.events[3] = [type |-> "Quit"]
    /\ fcall.emitted = <<Quit, KeyReleased("W")>>

-----------------------------------------------------------------------------
(* Claims about the controllers over several ticks *)

\* 1 if the key is held, else 0
HeldAsNumber(keycode) == IF keycode \in fcall.held THEN 1 ELSE 0

\* C27 as stated: in every process_signals call of the camera controller the
\* translation along each axis is the controller's current trans_speed times
\* (1 if the positive key of the axis is held, else 0) minus (1 if the
\* negative key is held, else 0).
C27_TranslationFollowsHeldKeys ==
    fcall.op = "process_signals" =>
        /\ fcall.delta_mov[1] = fcall.ctl.trans_speed * (HeldAsNumber("D") - HeldAsNumber("A"))
        /\ fcall.delta_mov[2] = fcall.ctl.trans_speed * (HeldAsNumber("SPACE") - HeldAsNumber("LCTRL"))
        /\ fcall.delta_mov[3] = fcall.ctl.trans_speed * (HeldAsNumber("S") - HeldAsNumber("W"))

\* gamma, in tenths, after the signals: EQUALS raises it by 0.2 up to 3.0,
\* MINUS lowers it by 0.2 down to 1.0, nothing else changes it
RECURSIVE GammaAfter(_, _)
GammaAfter(gamma, signals) ==
    IF signals = <<>> THEN gamma
    ELSE GammaAfter(IF Head(signals) = KeyPressed("EQUALS") THEN Min2(gamma + 2, 30)
                    ELSE IF Head(signals) = KeyPressed("MINUS") THEN Max2(gamma - 2, 10)
                    ELSE gamma,
                    Tail(signals))

\* C28: after any sequence of key presses the ScreenController's gamma and
\* the gamma process_signals copies to the screen are within [1.0, 3.0]
\* (10..30 tenths); an update leaves the gamma that follows from the one
\* before by its signals: +0.2 per EQUALS saturating at 3.0, -0.2 per MINUS
\* saturating at 1.0, no change for any other signal.
C28_GammaInRange ==
    /\ fcall.ctl.gamma \in 10..30
    /\ fcall.scr.gamma \in 10..30
    /\ fcall.op = "process_signals" =>
          /\ fcall.scr.gamma = fcall.ctl.gamma
          /\ fcall.ctl.gamma = GammaAfter(fcall.before.gamma, fcall.signals)

\* an update that raises a gamma of 2.8 twice: it stays at 3.0
C28_Witness ==
    /\ fcall.op = "process_signals"
    /\ fcall.before.gamma = 28
    /\ fcall.signals = <<KeyPressed("EQUALS"), KeyPressed("EQUALS")>>
    /\ fcall.scr.gamma = 30

\* after n process_signals calls a counter of rate r >= 1 is in 1..r and the
\* update ran on the calls r, 2r, 3r, ..., and only on them; a counter of
\* rate 0 is 0 and the update never ran
CounterInStep(count, rate, updates, n) ==
    IF rate >= 1
    THEN /\ count \in 1..rate
         /\ count = rate - (n % rate)
         /\ updates = n \div rate
    ELSE count = 0 /\ updates = 0

\* C30: for every RandomTransform registered with the RTController, a tick
\* counter of rate r >= 1 stays in 1..r and update_axis (update_dir) is called
\* on exactly every r-th process_signals call; with rate 0 the counter stays
\* 0 and the update is never called.
C30_TickCounters ==
    \A i \in 1..Len(fcall.rts) :
        /\ CounterInStep(fcall.ctl.tick_list[i][1], fcall.rts[i].ang_upd_rate,
                         fcall.rts[i].axis_updates, fcall.n)
        /\ CounterInStep(fcall.ctl.tick_list[i][2], fcall.rts[i].lin_upd_rate,
                         fcall.rts[i].dir_updates, fcall.n)

\* six calls on rates 3, 2 and 1, 0: two, three, six and no updates
C30_Witness ==
    /\ fcall.n = 6
    /\ fcall.rts[1].ang_upd_rate = 3
    /\ fcall.rts[1].axis_updates = 2
    /\ fcall.rts[1].lin_upd_rate = 2
    /\ fcall.rts[1].dir_updates = 3
    /\ fcall.rts[2].ang_upd_rate = 1
    /\ fcall.rts[2].axis_updates = 6
    /\ fcall.rts[2].lin_upd_rate = 0
    /\ fcall.rts[2].dir_updates = 0

\* C29: in every ControllerHub::update no RefCell is borrowed mutably while
\* another borrow of it is active, and every slot is alive when emit upgrades
\* it: no borrow and no upgrade of the update panics, a cell is never
\* borrowed both ways, at most one cell of a controller is borrowed at a
\* time, and between two updates nothing is borrowed and every Rc is held
\* once.
C29_NoBorrowPanic ==
    /\ ~fcall.m.panicked
    /\ \A c \in Cells :
          /\ ~(fcall.m.mutable[c] /\ fcall.m.shared[c] > 0)
          /\ fcall.m.shared[c] <= 1
          /\ fcall.m.strong[c] >= 1
    /\ fcall.todo # <<>> =>
          LET o == Head(fcall.todo)
          IN  /\ o.op = "borrow_mut" =>
                    ~fcall.m.mutable[o.cell] /\ fcall.m.shared[o.cell] = 0
              /\ o.op = "borrow" => ~fcall.m.mutable[o.cell]
              /\ o.op = "upgrade" => fcall.m.strong[o.cell] >= 1
    /\ fcall.todo = <<>> => fcall.m = RefInit

\* in the second update emit has upgraded and borrowed the last slot for the
\* last signal of the poll, inside the borrow of the handler
C29_Witness ==
    /\ fcall.ticks = 2
    /\ fcall.last = RefOp("borrow_mut", "rt")
    /\ fcall.m.mutable["rt"]
    /\ fcall.m.mutable["handler"]
    /\ fcall.m.strong["rt"] = 2
    /\ Len(fcall.todo) = 4 + 3 * Len(Slots)

=============================================================================
